---- MODULE Spec2Model ----
(***************************************************************************)
(* Galton board: layout calculator, ball queue, batch-fill board           *)
(* (src/unnamed/part_002) driven by the App of src/types.ts and the        *)
(* Controls of src/components/Controls.tsx, and the older single-gate      *)
(* layout calculator of src/unnamed/part_001.                              *)
(*                                                                         *)
(* JavaScript numbers are modelled as exact rationals <<n, d>> with d > 0  *)
(* in lowest terms, so a division is a division and not a rounding.        *)
(***************************************************************************)
EXTENDS Integers, Sequences, FiniteSets, TLC

\* ------------------------------------------------------------------------
\* Exact rational arithmetic
\* ------------------------------------------------------------------------
Abs(n) == IF n < 0 THEN -n ELSE n

RECURSIVE Gcd(_, _)
Gcd(a, b) == IF b = 0 THEN a ELSE Gcd(b, a % b)

Norm(n, d) ==
  LET s == IF d < 0 THEN -1 ELSE 1
      g == Gcd(Abs(n), Abs(d))
  IN  <<(s * n) \div g, (s * d) \div g>>

R(n) == <<n, 1>>
Frac(n, d) == Norm(n, d)

RAdd(a, b) ==
  LET g == Gcd(a[2], b[2])
  IN  Norm(a[1] * (b[2] \div g) + b[1] * (a[2] \div g), (a[2] \div g) * b[2])
RNeg(a) == <<-a[1], a[2]>>
RSub(a, b) == RAdd(a, RNeg(b))
RMul(a, b) ==
  LET g1 == Gcd(Abs(a[1]), b[2])
      g2 == Gcd(Abs(b[1]), a[2])
  IN  Norm((a[1] \div g1) * (b[1] \div g2), (a[2] \div g2) * (b[2] \div g1))
RDiv(a, b) == RMul(a, Norm(b[2], b[1]))
RLt(a, b) ==
  LET g == Gcd(a[2], b[2])
  IN  a[1] * (b[2] \div g) < b[1] * (a[2] \div g)
RLe(a, b) == ~RLt(b, a)
RMax(a, b) == IF RLt(a, b) THEN b ELSE a
RAbs(a) == <<Abs(a[1]), a[2]>>
\* Math.floor
RFloor(a) == a[1] \div a[2]

\* ------------------------------------------------------------------------
\* Layout calculator of the batch-fill board (part_002)
\* ------------------------------------------------------------------------
\* the squashed spacing without its floor of 10
squashedSpacingYUnfloored(availableHeightForPegs, rowCount) ==
  RDiv(availableHeightForPegs, R(rowCount - 1))

\* spacingY = Math.max(10, availableHeightForPegs / (rowCount - 1))
squashedSpacingY(availableHeightForPegs, rowCount) ==
  RMax(R(10), RDiv(availableHeightForPegs, R(rowCount - 1)))

getLayoutMetrics(width, height, cfg) ==
  LET topMargin == R(10)
      funnelSlopeHeight == RMax(R(70), RMul(height, Frac(15, 100)))
      funnelNeckHeight == R(40)
      funnelExitY == RAdd(funnelSlopeHeight, funnelNeckHeight)
      gap == R(30)
      spacingX == RDiv(width, R(cfg.bucketCount))
      idealSpacingY == RMul(spacingX, Frac(75, 100))
      minViableBinHeight == RMax(R(150), RMul(height, Frac(3, 10)))
      availableHeightForPegs ==
        RSub(RSub(RSub(RSub(height, funnelExitY), topMargin), gap), minViableBinHeight)
      requiredHeight == RMul(R(cfg.rowCount - 1), idealSpacingY)
      spacingY == IF RLt(availableHeightForPegs, requiredHeight)
                  THEN squashedSpacingY(availableHeightForPegs, cfg.rowCount)
                  ELSE idealSpacingY
      finalPegBlockHeight == RMul(R(cfg.rowCount - 1), spacingY)
      pegStartY == RAdd(funnelExitY, gap)
      binStartY == RAdd(RAdd(pegStartY, finalPegBlockHeight), RMul(spacingY, Frac(1, 2)))
      realBinHeight == RMax(R(0), RSub(height, binStartY))
  IN  [funnelSlopeHeight |-> funnelSlopeHeight,
       funnelNeckHeight |-> funnelNeckHeight,
       funnelExitY |-> funnelExitY,
       pegStartY |-> pegStartY,
       binStartY |-> binStartY,
       binHeight |-> realBinHeight,
       spacingX |-> spacingX,
       spacingY |-> spacingY]

\* The branch of getLayoutMetrics that squashes the vertical spacing is taken
\* (requiredHeight > availableHeightForPegs).
squashes(width, height, cfg) ==
  LET funnelExitY == RAdd(RMax(R(70), RMul(height, Frac(15, 100))), R(40))
      minViableBinHeight == RMax(R(150), RMul(height, Frac(3, 10)))
      availableHeightForPegs ==
        RSub(RSub(RSub(RSub(height, funnelExitY), R(10)), R(30)), minViableBinHeight)
      requiredHeight ==
        RMul(R(cfg.rowCount - 1), RMul(RDiv(width, R(cfg.bucketCount)), Frac(75, 100)))
  IN  RLt(availableHeightForPegs, requiredHeight)

\* minViableBinHeight of getLayoutMetrics
minViableBinHeightOf(height) == RMax(R(150), RMul(height, Frac(3, 10)))

\* ------------------------------------------------------------------------
\* Layout calculator of the single-gate board (part_001)
\* ------------------------------------------------------------------------
getLayoutMetrics001(width, height, cfg) ==
  LET topMargin == R(10)
      funnelHeight == RMax(R(70), RMul(height, Frac(15, 100)))
      gap == RMul(funnelHeight, Frac(12, 10))
      targetSpacingX == RDiv(width, R(cfg.bucketCount))
      targetSpacingY == RMul(targetSpacingX, Frac(6, 10))
      targetPegBlockHeight == RMul(R(cfg.rowCount - 1), targetSpacingY)
      usedHeightPreBin ==
        RAdd(RAdd(RAdd(funnelHeight, topMargin), gap), targetPegBlockHeight)
      remainingForBins == RSub(height, usedHeightPreBin)
      minViableBinHeight == RMax(R(150), RMul(height, Frac(3, 10)))
      fits == RLe(minViableBinHeight, remainingForBins)
      maxAvailablePegHeight ==
        RSub(RSub(RSub(RSub(height, funnelHeight), topMargin), gap), minViableBinHeight)
      spacingY == IF fits THEN targetSpacingY
                  ELSE RDiv(maxAvailablePegHeight, R(cfg.rowCount - 1))
      spacingX == IF fits THEN targetSpacingX
                  ELSE RDiv(spacingY, Frac(6, 10))
      finalPegBlockHeight == RMul(R(cfg.rowCount - 1), spacingY)
      funnelTipY == funnelHeight
      pegStartY == RAdd(funnelTipY, gap)
      binStartY == RAdd(RAdd(pegStartY, finalPegBlockHeight), RMul(spacingY, Frac(1, 2)))
      realBinHeight == RMax(R(0), RSub(height, binStartY))
  IN  [funnelHeight |-> funnelHeight,
       funnelTipY |-> funnelTipY,
       pegStartY |-> pegStartY,
       binStartY |-> binStartY,
       binHeight |-> realBinHeight,
       spacingX |-> spacingX,
       spacingY |-> spacingY]

\* The else branch of part_001's getLayoutMetrics is taken
\* (remainingForBins < minViableBinHeight).
squashes001(width, height, cfg) ==
  LET funnelHeight == RMax(R(70), RMul(height, Frac(15, 100)))
      usedHeightPreBin ==
        RAdd(RAdd(RAdd(funnelHeight, R(10)), RMul(funnelHeight, Frac(12, 10))),
             RMul(R(cfg.rowCount - 1), RMul(RDiv(width, R(cfg.bucketCount)), Frac(6, 10))))
  IN  RLt(RSub(height, usedHeightPreBin), RMax(R(150), RMul(height, Frac(3, 10))))

\* ------------------------------------------------------------------------
\* Bounds of the model
\* ------------------------------------------------------------------------
\* number of colours of DEFAULT_COLORS that the ball pool of the board uses
NumColors == 1
\* largest count typed into a ball-pool field of the board
MaxPoolCount == 1
\* number of fill commands (fillTrigger increments)
MaxFills == 2
\* number of ball bodies in the world
MaxBalls == 2
\* number of ticks that move the gate bodies between two rebuilds
MaxGateSteps == 2
\* the same, for the board that holds no balls
MaxGateRun == 4
\* completion signals counted in one settling episode
MaxFireCount == 2
\* layout probe: canvas sizes are multiples of 100 up to 100 * MaxSize
MaxSize == 9
\* layout probe: rowCount in 2..MaxRows, bucketCount in 1..MaxBuckets
MaxRows == 8
MaxBuckets == 9
\* queue of the App alone: counts in -1..MaxCount for MaxDefs definitions
MaxCount == 4
MaxDefs == 3
\* degenerate layout probe: sizes go down to -100 * MaxBelowZero
MaxBelowZero == 2
\* timed resize: the clock runs for MaxTimeSteps steps of half a debounce delay
MaxTimeSteps == 8
\* timed resize: notifications counted in one burst
MaxBurst == 3
\* tuning probe: ball positions binStartY - MaxOffset .. binStartY + MaxOffset
MaxOffset == 12

\* ------------------------------------------------------------------------
\* State
\* ------------------------------------------------------------------------
VARIABLES
  status,           \* App: SimulationStatus
  config,           \* App: SimulationConfig
  ballDefinitions,  \* App: BallDefinition[]
  ballQueue,        \* App: useMemo over ballDefinitions / GaltonBoard prop
  fillTrigger,      \* App: fill command counter
  isGateOpen,       \* App state, mirrored into isGateOpenRef by its effect
  container,        \* clientWidth / clientHeight of the board container
  resizeTimeoutRef, \* a debounced resize is pending
  dimensions,       \* GaltonBoard: dimensions state
  layoutRef,        \* GaltonBoard: cached layout metrics
  leftGateRef,      \* GaltonBoard: left gate body or Null
  rightGateRef,     \* GaltonBoard: right gate body or Null
  ballsRef,         \* GaltonBoard: ball bodies, in spawn order
  world,            \* Matter world: ids of the ball bodies, gate bodies present
  gateSteps,        \* ticks that moved the gates since the last rebuild
  lastOp,           \* the operation that ran last: "tick", "handleRelease" or "other"
  fireCount,        \* consecutive ticks that invoked onComplete on unchanged balls
  probe             \* inputs and result of the pure-function probes

vars == <<status, config, ballDefinitions, ballQueue, fillTrigger, isGateOpen,
          container, resizeTimeoutRef, dimensions, layoutRef, leftGateRef,
          rightGateRef, ballsRef, world, gateSteps, lastOp, fireCount, probe>>

appVars == <<status, config, ballDefinitions, ballQueue, fillTrigger, isGateOpen>>
boardVars == <<container, resizeTimeoutRef, dimensions, layoutRef, leftGateRef,
               rightGateRef, ballsRef, world, gateSteps>>
obsVars == <<lastOp, fireCount>>

\* onComplete was invoked by the tick that just ran
fired == lastOp = "tick" /\ fireCount > 0

Null == <<>>

\* DEFAULT_COLORS (types.ts), by name
DEFAULT_COLORS == <<"Blue", "Red", "Green", "Amber", "Purple">>

\* ------------------------------------------------------------------------
\* App: the ball queue (useMemo over ballDefinitions)
\* ------------------------------------------------------------------------
RECURSIVE pushTimes(_, _, _)
\* for (let i = 0; i < count; i++) queue.push(color)
pushTimes(queue, color, count) ==
  IF count <= 0 THEN queue ELSE pushTimes(Append(queue, color), color, count - 1)

RECURSIVE flattenFrom(_, _, _)
flattenFrom(defs, k, queue) ==
  IF k > Len(defs) THEN queue
  ELSE flattenFrom(defs, k + 1, pushTimes(queue, defs[k].color, defs[k].count))

\* a flattening whose inner loop runs once too often (i <= count)
ballQueueOffByOne(defs) ==
  flattenFrom([k \in 1..Len(defs) |-> [defs[k] EXCEPT !.count = @ + 1]], 1, <<>>)

\* ballDefinitions.forEach(def => ...)
ballQueueOf(defs) == flattenFrom(defs, 1, <<>>)

\* ------------------------------------------------------------------------
\* Board builder (setupStaticBoard) and gate geometry
\* ------------------------------------------------------------------------
\* const gap = Math.max(ballSize * 2.2, 5)
neckGap(ballSize) == RMax(RMul(R(ballSize), Frac(22, 10)), R(5))
gateOverlap == 30
centerOverlap == 5
gateWidth(ballSize) == RAdd(RDiv(neckGap(ballSize), R(2)), R(gateOverlap))

closedLeftX(width, ballSize) ==
  RAdd(RSub(RDiv(width, R(2)), RDiv(gateWidth(ballSize), R(2))), R(centerOverlap))
closedRightX(width, ballSize) ==
  RSub(RAdd(RDiv(width, R(2)), RDiv(gateWidth(ballSize), R(2))), R(centerOverlap))
\* a slide of the margin alone
slideDistOfMargin(ballSize) == R(5)

slideDist(ballSize) == RAdd(gateWidth(ballSize), R(5))
openLeftX(width, ballSize) == RSub(closedLeftX(width, ballSize), slideDist(ballSize))
openRightX(width, ballSize) == RAdd(closedRightX(width, ballSize), slideDist(ballSize))

\* a left gate body created at its open position
newLeftGateOpen(dim, cfg) ==
  [x |-> openLeftX(dim.width, cfg.ballSize),
   y |-> getLayoutMetrics(dim.width, dim.height, cfg).funnelExitY]

\* the two gate bodies setupStaticBoard creates (closed positions, y = funnelExitY)
newLeftGate(dim, cfg) ==
  [x |-> closedLeftX(dim.width, cfg.ballSize),
   y |-> getLayoutMetrics(dim.width, dim.height, cfg).funnelExitY]
newRightGate(dim, cfg) ==
  [x |-> closedRightX(dim.width, cfg.ballSize),
   y |-> getLayoutMetrics(dim.width, dim.height, cfg).funnelExitY]

\* ------------------------------------------------------------------------
\* Ball spool (spawnBalls)
\* ------------------------------------------------------------------------
\* Math.random() * 50, sampled
JitterYs == {R(25)}

ballsPerRow(width, ballSize) ==
  LET ballSpacing == RMul(R(ballSize), Frac(22, 10))
      n == RFloor(RDiv(width, ballSpacing)) - 2
  IN  IF n < 1 THEN 1 ELSE n

\* y of ball i (0-based) of a batch, for a jitter value
spawnY(i, layout, width, ballSize, jitter) ==
  LET ballSpacing == RMul(R(ballSize), Frac(22, 10))
      row == i \div ballsPerRow(width, ballSize)
  IN  RSub(RSub(RSub(layout.funnelSlopeHeight, R(50)),
                RMul(R(row), RMul(ballSpacing, Frac(11, 10)))),
           jitter)

\* Matter.Bodies.circle(x, y, ballSize, {label: 'ball', restitution: 0, friction, ...});
\* restitution in tenths, friction in thousandths
newBall(id, color, y, cfg) ==
  [id |-> id, color |-> color, y |-> y, isSleeping |-> FALSE,
   restitution |-> 0, friction |-> cfg.ballFriction]

\* a spawn that replaces the ball list instead of appending to it
withOnlyNewBalls(balls, newBalls) == newBalls

\* ballsRef.current = [...ballsRef.current, ...newBalls]
withNewBalls(balls, newBalls) == balls \o newBalls

\* the id Matter gives a new body: one not held by ballsRef nor in the world
freshId(balls, w) ==
  LET used == {balls[i].id : i \in 1..Len(balls)} \cup w.balls
  IN  IF used = {} THEN 1 ELSE 1 + CHOOSE m \in used : \A n \in used : n <= m

\* the batches spawnBalls can create for a queue: one body per queue entry,
\* in queue order, ids counted on from firstId
newBallBatches(queue, firstId, layout, width, cfg) ==
  { [i \in 1..Len(queue) |->
       newBall(firstId + i - 1, queue[i],
               spawnY(i - 1, layout, width, cfg.ballSize, j[i]), cfg)]
    : j \in [1..Len(queue) -> JitterYs] }


\* ------------------------------------------------------------------------
\* Inputs of the Controls and of the host
\* ------------------------------------------------------------------------
\* Rows slider (min 4, max 24), sampled
RowChoices == {4, 6}
\* Bucket Columns slider (min 4, max 50), sampled
BucketChoices == {4, 22}
\* Ball Size slider (min 1, max 10), sampled
BallSizeChoices == {2, 5}
\* Bounciness slider (0.1 .. 1.0 step 0.1), in tenths, sampled
RestitutionChoices == {5, 9}
\* Friction slider (0.000 .. 0.100 step 0.001), in thousandths, sampled
FrictionChoices == {0, 50}
\* sizes the board container takes (the App keeps width = 1.6 * height)
ContainerSizes == {[width |-> R(0), height |-> R(0)],
                   [width |-> R(960), height |-> R(600)]}

PoolColors == {DEFAULT_COLORS[k] : k \in 1..NumColors}
PoolDefinitions(maxCount) ==
  { [k \in 1..NumColors |-> [color |-> DEFAULT_COLORS[k], count |-> c[k]]]
    : c \in [1..NumColors -> 0..maxCount] }

\* ------------------------------------------------------------------------
\* Effects of GaltonBoard (part_002), in declaration order
\* ------------------------------------------------------------------------
\* a gate effect that wakes nothing
wakeNone(balls) == balls

\* a gate effect that loses the first ball of the list
wakeAllButFirst(balls) ==
  IF balls = <<>> THEN balls
  ELSE [i \in 1..(Len(balls) - 1) |-> [balls[i + 1] EXCEPT !.isSleeping = FALSE]]

\* useEffect [isGateOpen]: wake every ball of ballsRef when the gate opens
wakeAll(balls) == [i \in 1..Len(balls) |-> [balls[i] EXCEPT !.isSleeping = FALSE]]

\* useEffect [dimensions, config]: refresh the cached layout
layoutAfter(dim, cfg, old) ==
  IF RLt(R(0), dim.width) THEN getLayoutMetrics(dim.width, dim.height, cfg) ELSE old

\* a rebuild that adds the new gate bodies without clearing the world
setupStaticBoardWithoutClear(dim, cfg) ==
  IF dim.width = R(0)
  THEN UNCHANGED <<leftGateRef, rightGateRef, ballsRef, world, gateSteps>>
  ELSE /\ leftGateRef' = newLeftGate(dim, cfg)
       /\ rightGateRef' = newRightGate(dim, cfg)
       /\ ballsRef' = ballsRef
       /\ world' = [world EXCEPT !.gates = TRUE]
       /\ gateSteps' = 0

\* a rebuild that clears the world but keeps the ball list
setupStaticBoardKeepingBalls(dim, cfg) ==
  IF dim.width = R(0)
  THEN UNCHANGED <<leftGateRef, rightGateRef, ballsRef, world, gateSteps>>
  ELSE /\ leftGateRef' = newLeftGate(dim, cfg)
       /\ rightGateRef' = newRightGate(dim, cfg)
       /\ ballsRef' = ballsRef
       /\ world' = [balls |-> {}, gates |-> TRUE]
       /\ gateSteps' = 0

\* setupStaticBoard, run by useEffect [resetTrigger, config, dimensions]:
\* World.clear, ballsRef = [], new gate bodies, World.add(statics and gates)
setupStaticBoard(dim, cfg) ==
  IF dim.width = R(0)
  THEN UNCHANGED <<leftGateRef, rightGateRef, ballsRef, world, gateSteps>>
  ELSE /\ leftGateRef' = newLeftGate(dim, cfg)
       /\ rightGateRef' = newRightGate(dim, cfg)
       /\ ballsRef' = <<>>
       /\ world' = [balls |-> {}, gates |-> TRUE]
       /\ gateSteps' = 0

\* what every App action records about itself
Observe(op) ==
  /\ lastOp' = op
  /\ fireCount' = IF ballsRef' = ballsRef THEN fireCount ELSE 0

\* useState<SimulationConfig>({...}) with ballCount synced to the queue
initialConfig(ballCount) ==
  [rowCount |-> 6, ballCount |-> ballCount, bucketCount |-> 22, pegSize |-> 4,
   ballSize |-> 2, ballRestitution |-> 5, ballFriction |-> 0]

\* ------------------------------------------------------------------------
\* App handlers (types.ts) with the effects they trigger
\* ------------------------------------------------------------------------
\* setFillTrigger(prev => prev + 1), then useEffect [fillTrigger]: spawnBalls
handleFill ==
  /\ fillTrigger < MaxFills
  /\ RLt(R(0), dimensions.width) => Len(ballsRef) + Len(ballQueue) <= MaxBalls
  /\ status' = "running"
  /\ fillTrigger' = fillTrigger + 1
  /\ IF fillTrigger + 1 > 0 /\ RLt(R(0), dimensions.width)
     THEN \E newBalls \in newBallBatches(ballQueue, freshId(ballsRef, world),
                 IF layoutRef # Null THEN layoutRef
                 ELSE getLayoutMetrics(dimensions.width, dimensions.height, config),
                 dimensions.width, config) :
            /\ ballsRef' = withNewBalls(ballsRef, newBalls)
            /\ world' = [world EXCEPT !.balls = @ \cup {newBalls[i].id : i \in 1..Len(newBalls)}]
     ELSE UNCHANGED <<ballsRef, world>>
  /\ UNCHANGED <<config, ballDefinitions, ballQueue, isGateOpen, container,
                 resizeTimeoutRef, dimensions, layoutRef, leftGateRef, rightGateRef,
                 gateSteps, probe>>
  /\ Observe("other")

\* setIsGateOpen(prev => !prev), then useEffect [isGateOpen]
handleRelease ==
  /\ isGateOpen' = ~isGateOpen
  /\ ballsRef' = IF ~isGateOpen THEN wakeAll(ballsRef) ELSE ballsRef
  /\ UNCHANGED <<status, config, ballDefinitions, ballQueue, fillTrigger, container,
                 resizeTimeoutRef, dimensions, layoutRef, leftGateRef, rightGateRef,
                 world, gateSteps, probe>>
  /\ Observe("handleRelease")

\* setIsGateOpen(false); setResetTrigger(prev => prev + 1); setStatus('empty')
handleReset ==
  /\ isGateOpen' = FALSE
  /\ status' = "empty"
  /\ setupStaticBoard(dimensions, config)
  /\ UNCHANGED <<config, ballDefinitions, ballQueue, fillTrigger, container,
                 resizeTimeoutRef, dimensions, layoutRef, probe>>
  /\ Observe("other")

\* ------------------------------------------------------------------------
\* Controls (Controls.tsx) with the effects a config change triggers
\* ------------------------------------------------------------------------
disabled == status = "running"

\* a new config object reaches GaltonBoard: cached layout, rebuild
configChanged(cfg) ==
  /\ config' = cfg
  /\ layoutRef' = layoutAfter(dimensions, cfg, layoutRef)
  /\ setupStaticBoard(dimensions, cfg)

\* a Rows slider that pairs val rows with val buckets fewer than none
bucketsBelowNone(val) == 0 - val

\* Math.floor(val * 2) of the Rows slider (val is an integer)
bucketsForRows(val) == val * 2

\* onChange of the Rows slider for a value of the given set:
\* setConfig(prev => ({...prev, rowCount: val, bucketCount: Math.floor(val * 2)}))
rowsChange(values) ==
  /\ ~disabled
  /\ \E val \in values :
       /\ val # config.rowCount
       /\ configChanged([config EXCEPT !.rowCount = val,
                                       !.bucketCount = bucketsForRows(val)])
  /\ UNCHANGED <<status, ballDefinitions, ballQueue, fillTrigger, isGateOpen,
                 container, resizeTimeoutRef, dimensions, probe>>
  /\ Observe("other")

changeRows == rowsChange(RowChoices)

\* handleChange(key, value) of the Bucket Columns, Ball Size, Bounciness and
\* Friction sliders; the last three stay enabled while running
handleChange(key, values) ==
  /\ \E value \in values :
       /\ value # config[key]
       /\ configChanged([config EXCEPT ![key] = value])
  /\ UNCHANGED <<status, ballDefinitions, ballQueue, fillTrigger, isGateOpen,
                 container, resizeTimeoutRef, dimensions, probe>>
  /\ Observe("other")

\* prev.map(d => d.color.id === colorId ? {...d, count: newCount} : d)
changeBucketCount == ~disabled /\ handleChange("bucketCount", BucketChoices)
changeBallSize == handleChange("ballSize", BallSizeChoices)
changeBallRestitution == handleChange("ballRestitution", RestitutionChoices)
changeBallFriction == handleChange("ballFriction", FrictionChoices)

withCount(defs, color, newCount) ==
  [k \in 1..Len(defs) |->
     IF defs[k].color = color THEN [defs[k] EXCEPT !.count = newCount] ELSE defs[k]]

\* handleCountChange(colorId, newCount), the queue memo and the effect that
\* syncs config.ballCount with ballQueue.length
countChange(maxCount) ==
  /\ ~disabled
  /\ \E color \in {ballDefinitions[k].color : k \in 1..Len(ballDefinitions)},
        newCount \in (-1)..maxCount :
       IF newCount < 0
       THEN UNCHANGED <<config, ballDefinitions, ballQueue, layoutRef, leftGateRef,
                        rightGateRef, ballsRef, world, gateSteps>>
       ELSE LET defs == withCount(ballDefinitions, color, newCount)
                queue == ballQueueOf(defs)
            IN  /\ ballDefinitions' = defs
                /\ ballQueue' = queue
                /\ IF Len(queue) # Len(ballQueue)
                   THEN configChanged([config EXCEPT !.ballCount = Len(queue)])
                   ELSE UNCHANGED <<config, layoutRef, leftGateRef, rightGateRef,
                                    ballsRef, world, gateSteps>>
  /\ UNCHANGED <<status, fillTrigger, isGateOpen, container, resizeTimeoutRef,
                 dimensions, probe>>
  /\ Observe("other")

handleCountChange == countChange(MaxPoolCount)

\* ------------------------------------------------------------------------
\* Resize: ResizeObserver callback and its debounced timeout
\* ------------------------------------------------------------------------
resizeObserved ==
  /\ \E size \in ContainerSizes : size # container /\ container' = size
  /\ resizeTimeoutRef' = TRUE
  /\ UNCHANGED <<appVars, dimensions, layoutRef, leftGateRef, rightGateRef,
                 ballsRef, world, gateSteps, probe>>
  /\ Observe("other")

resizeTimeout ==
  /\ resizeTimeoutRef
  /\ resizeTimeoutRef' = FALSE
  /\ IF container.width = R(0) \/ container.height = R(0)
     THEN UNCHANGED <<dimensions, layoutRef, leftGateRef, rightGateRef, ballsRef,
                      world, gateSteps>>
     ELSE /\ dimensions' = container
          /\ layoutRef' = layoutAfter(container, config, layoutRef)
          /\ setupStaticBoard(container, config)
  /\ UNCHANGED <<appVars, container, probe>>
  /\ Observe("other")


\* ------------------------------------------------------------------------
\* The physics engine (Matter.Runner runs from mount on): it moves awake
\* balls and puts balls to sleep or wakes them.  Positions are sampled at
\* the places the tick compares against.
\* ------------------------------------------------------------------------
BallYs(layout) ==
  {layout.pegStartY,
   RSub(layout.binStartY, R(1)), RAdd(layout.binStartY, R(1))}

physicsMove ==
  /\ \E i \in 1..Len(ballsRef) :
       /\ ~ballsRef[i].isSleeping
       /\ \E y \in BallYs(layoutRef) :
            /\ y # ballsRef[i].y
            /\ ballsRef' = [ballsRef EXCEPT ![i].y = y]
  /\ UNCHANGED <<appVars, container, resizeTimeoutRef, dimensions, layoutRef,
                 leftGateRef, rightGateRef, world, gateSteps, probe>>
  /\ Observe("other")

physicsSleep ==
  /\ \E i \in 1..Len(ballsRef) :
       ballsRef' = [ballsRef EXCEPT ![i].isSleeping = ~ballsRef[i].isSleeping]
  /\ UNCHANGED <<appVars, container, resizeTimeoutRef, dimensions, layoutRef,
                 leftGateRef, rightGateRef, world, gateSteps, probe>>
  /\ Observe("other")

\* ------------------------------------------------------------------------
\* The tick (loop of the simulation-loop effect)
\* ------------------------------------------------------------------------
\* a gate animation that steps past its target
gateStepOvershooting(current, target) ==
  RAdd(current, RMul(RSub(target, current), Frac(12, 10)))

\* one step of the gate animation: current + (target - current) * 0.2
gateStep(current, target) == RAdd(current, RMul(RSub(target, current), Frac(2, 10)))

targetLeftX(isOpen, width, ballSize) ==
  IF isOpen THEN openLeftX(width, ballSize) ELSE closedLeftX(width, ballSize)
targetRightX(isOpen, width, ballSize) ==
  IF isOpen THEN openRightX(width, ballSize) ELSE closedRightX(width, ballSize)

\* zone tuning whose bin zone starts at binStartY itself
zoneRestitutionAtBinStart(y, layout, cfg) ==
  LET binLimit == layout.binStartY
      funnelLimit == RAdd(layout.funnelExitY, R(10))
  IN  IF RLt(y, funnelLimit) THEN 1
      ELSE IF RLt(binLimit, y) THEN 0
      ELSE cfg.ballRestitution

\* a tick that gives every awake ball the configured restitution
zoneRestitutionOfPegField(y, layout, cfg) == cfg.ballRestitution

\* restitution (tenths) the tick gives an awake ball at y
zoneRestitution(y, layout, cfg) ==
  LET binLimit == RSub(layout.binStartY, R(10))
      funnelLimit == RAdd(layout.funnelExitY, R(10))
  IN  IF RLt(y, funnelLimit) THEN 1
      ELSE IF RLt(binLimit, y) THEN 0
      ELSE cfg.ballRestitution

\* the body of the per-ball loop
tuneBall(ball, layout, cfg, gateOpen) ==
  LET woken == IF gateOpen /\ RLt(ball.y, layout.binStartY) /\ ball.isSleeping
               THEN [ball EXCEPT !.isSleeping = FALSE] ELSE ball
      rubbed == [woken EXCEPT !.friction = cfg.ballFriction]
  IN  IF rubbed.isSleeping THEN rubbed
      ELSE [rubbed EXCEPT !.restitution = zoneRestitution(rubbed.y, layout, cfg)]

activeCountOf(balls) == Cardinality({i \in 1..Len(balls) : ~balls[i].isSleeping})

\* the completion check at the end of the tick
completes(totalBalls, activeCount, cfg) ==
  IF totalBalls > 0
  THEN IF activeCount = 0 /\ totalBalls = cfg.ballCount
       THEN TRUE
       ELSE activeCount = 0
  ELSE FALSE

tickWithin(maxSteps) ==
  /\ status = "running"
  /\ IF RLt(R(0), dimensions.width)
     THEN LET layout == IF layoutRef # Null THEN layoutRef
                        ELSE getLayoutMetrics(dimensions.width, dimensions.height, config)
              hasGates == leftGateRef # Null /\ rightGateRef # Null
              newLeftX == gateStep(leftGateRef.x,
                                   targetLeftX(isGateOpen, dimensions.width, config.ballSize))
              newRightX == gateStep(rightGateRef.x,
                                    targetRightX(isGateOpen, dimensions.width, config.ballSize))
              balls == [i \in 1..Len(ballsRef) |->
                          tuneBall(ballsRef[i], layout, config, isGateOpen)]
              done == completes(Len(balls), activeCountOf(balls), config)
          IN  /\ IF hasGates
                 THEN /\ (newLeftX # leftGateRef.x \/ newRightX # rightGateRef.x)
                           => gateSteps < maxSteps
                      /\ leftGateRef' = [leftGateRef EXCEPT !.x = newLeftX]
                      /\ rightGateRef' = [rightGateRef EXCEPT !.x = newRightX]
                      /\ gateSteps' = IF newLeftX # leftGateRef.x \/ newRightX # rightGateRef.x
                                      THEN gateSteps + 1 ELSE gateSteps
                 ELSE UNCHANGED <<leftGateRef, rightGateRef, gateSteps>>
              /\ ballsRef' = balls
              /\ fireCount' = IF done
                              THEN (IF fireCount < MaxFireCount THEN fireCount + 1 ELSE fireCount)
                              ELSE 0
     ELSE /\ UNCHANGED <<leftGateRef, rightGateRef, gateSteps, ballsRef>>
          /\ fireCount' = 0
  /\ lastOp' = "tick"
  /\ UNCHANGED <<appVars, container, resizeTimeoutRef, dimensions, layoutRef,
                 world, probe>>

\* ------------------------------------------------------------------------
\* The App with the batch-fill board
\* ------------------------------------------------------------------------
\* the board once mounted in a container of the given size: the mount
\* effect measures the container and setDimensions stores the size, then
\* the layout effect and the rebuild effect run (both skip a zero width)
Mounted(defs, size) ==
  /\ status = "empty"
  /\ ballDefinitions = defs
  /\ ballQueue = ballQueueOf(defs)
  /\ config = initialConfig(Len(ballQueueOf(defs)))
  /\ fillTrigger = 0
  /\ isGateOpen = FALSE
  /\ container = size
  /\ resizeTimeoutRef = FALSE
  /\ dimensions = size
  /\ layoutRef = layoutAfter(size, initialConfig(Len(ballQueueOf(defs))), Null)
  /\ leftGateRef = IF size.width = R(0) THEN Null
                   ELSE newLeftGate(size, initialConfig(Len(ballQueueOf(defs))))
  /\ rightGateRef = IF size.width = R(0) THEN Null
                    ELSE newRightGate(size, initialConfig(Len(ballQueueOf(defs))))
  /\ ballsRef = <<>>
  /\ world = [balls |-> {}, gates |-> size.width # R(0)]
  /\ gateSteps = 0
  /\ lastOp = "other"
  /\ fireCount = 0

\* a ball pool with every count at zero
EmptyPool == [k \in 1..NumColors |-> [color |-> DEFAULT_COLORS[k], count |-> 0]]

\* a container that is not laid out yet
Unsized == [width |-> R(0), height |-> R(0)]

tick == tickWithin(MaxGateSteps)

\* ------------------------------------------------------------------------
\* Spec: the App (fill, release, reset, ball pool) with the batch-fill board,
\* its resize handling, the physics engine and the tick
\* ------------------------------------------------------------------------
Init ==
  /\ \E defs \in PoolDefinitions(MaxPoolCount), size \in ContainerSizes : Mounted(defs, size)
  /\ probe = Null

Next ==
  \/ handleFill
  \/ handleRelease
  \/ handleReset
  \/ handleCountChange
  \/ resizeObserved
  \/ resizeTimeout
  \/ physicsMove
  \/ physicsSleep
  \/ tick

Spec == Init /\ [][Next]_vars

\* ------------------------------------------------------------------------
\* SpecBoard: the same board under a parent that passes a config whose
\* ballCount is not the queue length (GaltonBoardProps takes config and
\* ballQueue as separate props).  Balls stay where they were spawned: the
\* completion check reads only how many balls there are and which sleep.
\* ------------------------------------------------------------------------
parentPassesConfig ==
  /\ \E n \in 0..MaxBalls :
       /\ n # config.ballCount
       /\ configChanged([config EXCEPT !.ballCount = n])
  /\ UNCHANGED <<status, ballDefinitions, ballQueue, fillTrigger, isGateOpen,
                 container, resizeTimeoutRef, dimensions, probe>>
  /\ Observe("other")

NextBoard ==
  \/ handleFill
  \/ handleRelease
  \/ handleReset
  \/ parentPassesConfig
  \/ resizeObserved
  \/ resizeTimeout
  \/ physicsSleep
  \/ tick

SpecBoard == Init /\ [][NextBoard]_vars

\* ------------------------------------------------------------------------
\* SpecGate: the board with an empty ball pool, the Ball Size slider, and
\* a longer run of the gate animation
\* ------------------------------------------------------------------------
gateTick == tickWithin(MaxGateRun)

InitGate ==
  /\ \E size \in ContainerSizes : Mounted(EmptyPool, size)
  /\ probe = Null

NextGate ==
  \/ handleFill
  \/ handleRelease
  \/ handleReset
  \/ changeBallSize
  \/ resizeObserved
  \/ resizeTimeout
  \/ gateTick

SpecGate == InitGate /\ [][NextGate]_vars

\* ------------------------------------------------------------------------
\* SpecQueue: the App's ball pool alone, with larger counts
\* ------------------------------------------------------------------------
queueCountChange == countChange(MaxCount)

InitQueue ==
  /\ Mounted([k \in 1..MaxDefs |-> [color |-> DEFAULT_COLORS[k], count |-> 0]], Unsized)
  /\ probe = Null

NextQueue == queueCountChange

SpecQueue == InitQueue /\ [][NextQueue]_vars

\* ------------------------------------------------------------------------
\* SpecLayout: both layout calculators applied to a grid of board sizes and
\* configurations
\* ------------------------------------------------------------------------
LayoutSizes == {R(100 * k) : k \in 1..MaxSize}

layoutConfig(rowCount, bucketCount) ==
  [rowCount |-> rowCount, ballCount |-> 0, bucketCount |-> bucketCount, pegSize |-> 4,
   ballSize |-> 2, ballRestitution |-> 5, ballFriction |-> 0]

InitLayout ==
  /\ Mounted(EmptyPool, Unsized)
  /\ \E width \in LayoutSizes, height \in LayoutSizes,
        rowCount \in 2..MaxRows, bucketCount \in 1..MaxBuckets :
       probe = [kind |-> "layout", width |-> width, height |-> height,
                config |-> layoutConfig(rowCount, bucketCount), done |-> FALSE]

computeLayout ==
  /\ probe.kind = "layout"
  /\ ~probe.done
  /\ probe' = [kind |-> "layout", width |-> probe.width, height |-> probe.height,
               config |-> probe.config, done |-> TRUE,
               metrics |-> getLayoutMetrics(probe.width, probe.height, probe.config),
               metrics001 |-> getLayoutMetrics001(probe.width, probe.height, probe.config)]
  /\ UNCHANGED <<appVars, boardVars, obsVars>>

NextLayout == computeLayout

SpecLayout == InitLayout /\ [][NextLayout]_vars

layoutDone == probe # Null /\ probe.kind = "layout" /\ probe.done

\* ------------------------------------------------------------------------
\* SpecDegenerate: both layout calculators applied to canvases whose width
\* or height is zero or negative
\* ------------------------------------------------------------------------
DegenerateSizes == {R(100 * k) : k \in (0 - MaxBelowZero)..MaxSize}

InitDegenerate ==
  /\ Mounted(EmptyPool, Unsized)
  /\ \E width \in DegenerateSizes, height \in DegenerateSizes,
        rowCount \in 2..MaxRows, bucketCount \in 1..MaxBuckets :
       /\ RLe(width, R(0)) \/ RLe(height, R(0))
       /\ probe = [kind |-> "layout", width |-> width, height |-> height,
                   config |-> layoutConfig(rowCount, bucketCount), done |-> FALSE]

SpecDegenerate == InitDegenerate /\ [][NextLayout]_vars

\* ------------------------------------------------------------------------
\* SpecTune: the per-ball body of the tick of both boards applied to balls
\* placed around binStartY
\* ------------------------------------------------------------------------
\* restitution (tenths) the tick of the single-gate board gives a ball at y
zoneRestitution001(y, layout, cfg) ==
  IF RLt(y, RAdd(layout.funnelTipY, R(10))) THEN 0
  ELSE IF RLt(RSub(layout.binStartY, R(10)), y) THEN 0
  ELSE cfg.ballRestitution

TuneSizes == {[width |-> R(960), height |-> R(600)], [width |-> R(400), height |-> R(300)]}

InitTune ==
  /\ Mounted(EmptyPool, Unsized)
  /\ \E dim \in TuneSizes, rowCount \in RowChoices, restitution \in RestitutionChoices,
        friction \in FrictionChoices, offset \in (0 - MaxOffset)..MaxOffset,
        isSleeping \in BOOLEAN, gateOpen \in BOOLEAN :
       probe = [kind |-> "tune", width |-> dim.width, height |-> dim.height,
                config |-> [layoutConfig(rowCount, rowCount * 2)
                              EXCEPT !.ballRestitution = restitution,
                                     !.ballFriction = friction],
                offset |-> offset, isSleeping |-> isSleeping, gateOpen |-> gateOpen,
                done |-> FALSE]

tuneProbe ==
  /\ probe.kind = "tune"
  /\ ~probe.done
  /\ LET layout == getLayoutMetrics(probe.width, probe.height, probe.config)
         layout001 == getLayoutMetrics001(probe.width, probe.height, probe.config)
         ball == [newBall(1, DEFAULT_COLORS[1], RAdd(layout.binStartY, R(probe.offset)),
                          probe.config)
                    EXCEPT !.isSleeping = probe.isSleeping, !.friction = 0]
     IN  probe' = [kind |-> "tune", width |-> probe.width, height |-> probe.height,
                   config |-> probe.config, offset |-> probe.offset,
                   isSleeping |-> probe.isSleeping, gateOpen |-> probe.gateOpen,
                   done |-> TRUE,
                   inFunnel |-> RLt(ball.y, RAdd(layout.funnelExitY, R(10))),
                   ball |-> tuneBall(ball, layout, probe.config, probe.gateOpen),
                   inFunnel001 |-> RLt(RAdd(layout001.binStartY, R(probe.offset)),
                                       RAdd(layout001.funnelTipY, R(10))),
                   restitution001 |-> zoneRestitution001(
                                        RAdd(layout001.binStartY, R(probe.offset)),
                                        layout001, probe.config)]
  /\ UNCHANGED <<appVars, boardVars, obsVars>>

NextTune == tuneProbe

SpecTune == InitTune /\ [][NextTune]_vars

tuneDone == probe # Null /\ probe.kind = "tune" /\ probe.done


\* ------------------------------------------------------------------------
\* SpecPegs: the peg loop of setupStaticBoard applied to a few boards
\* ------------------------------------------------------------------------
\* the x of the pegs of a row, without the test that keeps them on the board
pegXsUnfiltered(row, width, spacingX, bucketCount) ==
  LET maxOffset == (bucketCount + 2) \div 2
  IN  {RAdd(RDiv(width, R(2)),
            RAdd(RMul(R(i), spacingX),
                 IF row % 2 # 0 THEN RDiv(spacingX, R(2)) ELSE R(0)))
         : i \in (0 - maxOffset)..maxOffset}

\* the x of the pegs the inner loop pushes for a row:
\* i in -maxOffset..maxOffset, x = width / 2 + i * spacingX (+ spacingX / 2 on
\* odd rows), kept if x > -20 and x < width + 20
pegXs(row, width, spacingX, bucketCount) ==
  LET maxOffset == (bucketCount + 2) \div 2
      xOf(i) == RAdd(RDiv(width, R(2)),
                     RAdd(RMul(R(i), spacingX),
                          IF row % 2 # 0 THEN RDiv(spacingX, R(2)) ELSE R(0)))
  IN  {xOf(i) : i \in {j \in (0 - maxOffset)..maxOffset :
                         RLt(R(-20), xOf(j)) /\ RLt(xOf(j), RAdd(width, R(20)))}}

\* the peg bodies of the board: for (row = 0; row < rowCount; row++) ...
pegsOf(dim, cfg) ==
  LET layout == getLayoutMetrics(dim.width, dim.height, cfg)
  IN  UNION {{[row |-> row, x |-> x,
               y |-> RAdd(layout.pegStartY, RMul(R(row), layout.spacingY))]
                : x \in pegXs(row, dim.width, layout.spacingX, cfg.bucketCount)}
             : row \in 0..(cfg.rowCount - 1)}

PegBoards ==
  {[width |-> R(900), height |-> R(600)], [width |-> R(960), height |-> R(600)],
   [width |-> R(400), height |-> R(300)]}

InitPegs ==
  /\ Mounted(EmptyPool, Unsized)
  /\ \E dim \in PegBoards, rowCount \in 2..MaxRows, bucketCount \in 1..MaxBuckets :
       probe = [kind |-> "pegs", dim |-> dim,
                config |-> layoutConfig(rowCount, bucketCount), done |-> FALSE]

buildPegs ==
  /\ probe.kind = "pegs"
  /\ ~probe.done
  /\ probe' = [kind |-> "pegs", dim |-> probe.dim, config |-> probe.config,
               done |-> TRUE, pegs |-> pegsOf(probe.dim, probe.config)]
  /\ UNCHANGED <<appVars, boardVars, obsVars>>

NextPegs == buildPegs

SpecPegs == InitPegs /\ [][NextPegs]_vars

pegsDone == probe # Null /\ probe.kind = "pegs" /\ probe.done


\* ------------------------------------------------------------------------
\* SpecFunnel: the funnel neck of setupStaticBoard for every ball size the
\* Ball Size slider offers
\* ------------------------------------------------------------------------
\* <input type="range" min="1" max="10" step="1"> of the Ball Size slider
BallSizeSliderValues == 1..10

\* tipXLeft = halfWidth - gap / 2, tipXRight = halfWidth + gap / 2
funnelNeck(width, ballSize) ==
  [gap |-> neckGap(ballSize),
   tipXLeft |-> RSub(RDiv(width, R(2)), RDiv(neckGap(ballSize), R(2))),
   tipXRight |-> RAdd(RDiv(width, R(2)), RDiv(neckGap(ballSize), R(2)))]

InitFunnel ==
  /\ Mounted(EmptyPool, Unsized)
  /\ \E width \in LayoutSizes, ballSize \in BallSizeSliderValues :
       probe = [kind |-> "funnel", width |-> width, ballSize |-> ballSize, done |-> FALSE]

\* the two gate rectangles (centre x, width gateWidth) at the targets the
\* loop steers them to (the closed ones are where setupStaticBoard puts them)
gateTargets(width, ballSize) ==
  [gateWidth |-> gateWidth(ballSize),
   closedLeftX |-> targetLeftX(FALSE, width, ballSize),
   closedRightX |-> targetRightX(FALSE, width, ballSize),
   openLeftX |-> targetLeftX(TRUE, width, ballSize),
   openRightX |-> targetRightX(TRUE, width, ballSize)]

buildFunnel ==
  /\ probe.kind = "funnel"
  /\ ~probe.done
  /\ probe' = [kind |-> "funnel", width |-> probe.width, ballSize |-> probe.ballSize,
               done |-> TRUE, neck |-> funnelNeck(probe.width, probe.ballSize),
               gates |-> gateTargets(probe.width, probe.ballSize)]
  /\ UNCHANGED <<appVars, boardVars, obsVars>>

NextFunnel == buildFunnel

SpecFunnel == InitFunnel /\ [][NextFunnel]_vars

funnelDone == probe # Null /\ probe.kind = "funnel" /\ probe.done


\* ------------------------------------------------------------------------
\* SpecResize: the ResizeObserver callback and its debounced timeout under a
\* clock.  probe holds the clock (ms), the time the pending timeout is due,
\* the time of the last notification, the notifications of the current
\* burst (a notification less than the delay after the previous one belongs
\* to the same burst), the setDimensions calls since the burst began and
\* the time of the last one.
\* ------------------------------------------------------------------------
\* SpecControls: the Rows and Bucket Columns sliders over their whole range
\* on an idle board (the sliders are enabled)
\* ------------------------------------------------------------------------
\* <input type="range" min="4" max="24" step="1"> of Rows (Pegs)
RowsSliderValues == 4..24
\* <input type="range" min="4" max="50" step="1"> of Bucket Columns
BucketSliderValues == 4..50

\* the size of a laid-out board container
LaidOut == [width |-> R(960), height |-> R(600)]

rowsSlider == rowsChange(RowsSliderValues)
bucketSlider == ~disabled /\ handleChange("bucketCount", BucketSliderValues)

InitControls ==
  /\ Mounted(EmptyPool, LaidOut)
  /\ probe = Null

NextControls ==
  \/ rowsSlider
  \/ bucketSlider

SpecControls == InitControls /\ [][NextControls]_vars

\* ------------------------------------------------------------------------
\* SpecDrop: the timed-drop board (components/GaltonBoard.tsx) under its App
\* (part_000).  status, config, ballDefinitions, ballQueue, container and
\* dimensions are the App's and the board's state; probe holds the board's
\* refs and world: engine (engineRef.current is set), ballsDropped
\* (ballsDroppedRef), lastDropTime (lastDropTimeRef), now (the time of the
\* last animation frame, ms), balls (the bodies labelled 'ball' in the world,
\* oldest first), binStartY (of the bins setupBoard built), and sinceReset
\* (the balls spawned since the Board Setup effect last reset the board).
\* Speeds are in hundredths of a unit per step.
\* ------------------------------------------------------------------------
\* colours of the ball pool of the timed-drop App that take part
DropColors == 2
\* largest count of one colour
MaxDropCount == 1
\* the clock stops here (ms)
MaxDropTime == 250
\* time between two animation frames (ms), sampled
FrameSteps == {50, 100}

\* useState<SimulationConfig>({...}) of the timed-drop App, ballCount synced
initialConfig000(ballCount) ==
  [rowCount |-> 12, ballCount |-> ballCount, bucketCount |-> 13, pegSize |-> 6,
   ballSize |-> 5, ballRestitution |-> 5, dropSpeedMs |-> 50]

\* the board container at 9:16, and before it is laid out
DropContainerSizes == {[width |-> R(0), height |-> R(0)],
                       [width |-> R(540), height |-> R(960)]}

DropPools ==
  { [k \in 1..DropColors |-> [color |-> DEFAULT_COLORS[k], count |-> c[k]]]
    : c \in [1..DropColors -> 0..MaxDropCount] }

\* binStartY of setupBoard: lastPegY + spacingY * 0.5 + pegSize * 2
binStartYOf(width, cfg) ==
  LET paddingX == R(40)
      paddingTop == R(110)
      availableWidth == RSub(width, RMul(paddingX, R(2)))
      spacingX == RDiv(availableWidth, R(cfg.rowCount + 2))
      spacingY == RMul(spacingX, Frac(866, 1000))
      lastPegY == RAdd(paddingTop, RMul(R(cfg.rowCount - 1), spacingY))
  IN RAdd(RAdd(lastPegY, RMul(spacingY, Frac(1, 2))), R(cfg.pegSize * 2))

\* a drop test that lets a ball go as soon as dropSpeedMs has elapsed
dropDueAtInterval(timestamp, lastDropTime, dropSpeedMs) ==
  timestamp - lastDropTime >= dropSpeedMs

\* timestamp - lastDropTimeRef.current > config.dropSpeedMs
dropDue(timestamp, lastDropTime, dropSpeedMs) ==
  timestamp - lastDropTime > dropSpeedMs

\* b.speed < 0.15 && b.angularSpeed < 0.1 && b.position.y > 150
isSettled(b) == b.speed < 15 /\ b.angularSpeed < 10 /\ RLt(R(150), b.y)

\* Matter.Bodies.circle(width / 2 + jitter, -20, ballSize, {label: 'ball',
\* render: {fillStyle: color.color}}): a body at rest above the funnel
droppedBall(color) == [color |-> color, speed |-> 0, angularSpeed |-> 0, y |-> R(0 - 20)]

\* spawnBall: returns early without an engine or past the end of the queue
spawnBall(p, queue) ==
  IF ~p.engine \/ p.ballsDropped >= Len(queue)
  THEN p
  ELSE [p EXCEPT !.balls = Append(@, droppedBall(queue[p.ballsDropped + 1])),
                 !.sinceReset = @ + 1]

\* Board Setup effect [status, config, dimensions]: setupBoard (World.clear,
\* new statics from clientWidth) and ballsDroppedRef.current = 0, when idle
\* with an engine and a non-zero dimensions.width
boardSetup(p, st, cfg, dim, size) ==
  IF ~p.engine \/ dim.width = R(0) \/ st # "idle"
  THEN p
  ELSE [p EXCEPT !.balls = <<>>, !.ballsDropped = 0, !.sinceReset = 0,
                 !.binStartY = binStartYOf(size.width, cfg)]

\* the variables of the batch-fill board, which this App does not have
batchVars == <<fillTrigger, isGateOpen, resizeTimeoutRef, layoutRef, leftGateRef,
               rightGateRef, ballsRef, world, gateSteps>>

\* the timed-drop App once mounted with the given pool in a container of the
\* given size: the engine is created only for a non-zero size
MountedDrop(defs, size) ==
  /\ status = "idle"
  /\ ballDefinitions = defs
  /\ ballQueue = ballQueueOf(defs)
  /\ config = initialConfig000(Len(ballQueueOf(defs)))
  /\ container = size
  /\ dimensions = size
  /\ probe = [kind |-> "drop",
              engine |-> (size.width # R(0) /\ size.height # R(0)),
              ballsDropped |-> 0, lastDropTime |-> 0, now |-> 0, balls |-> <<>>,
              binStartY |-> binStartYOf(size.width, initialConfig000(Len(ballQueueOf(defs)))),
              sinceReset |-> 0, restarts |-> <<>>]
  /\ fillTrigger = 0
  /\ isGateOpen = FALSE
  /\ resizeTimeoutRef = FALSE
  /\ layoutRef = Null
  /\ leftGateRef = Null
  /\ rightGateRef = Null
  /\ ballsRef = <<>>
  /\ world = [balls |-> {}, gates |-> FALSE]
  /\ gateSteps = 0
  /\ lastOp = "other"
  /\ fireCount = 0

\* what an action other than the loop records
ObserveDrop == lastOp' = "other" /\ fireCount' = 0

\* handleStart: if (ballQueue.length === 0) return; setStatus('running')
handleStart ==
  /\ status # "running"
  /\ status' = IF Len(ballQueue) = 0 THEN status ELSE "running"
  /\ UNCHANGED <<config, ballDefinitions, ballQueue, container, dimensions, probe,
                 batchVars>>
  /\ ObserveDrop

\* handlePause: setStatus('paused')
handlePause ==
  /\ status = "running"
  /\ status' = "paused"
  /\ UNCHANGED <<config, ballDefinitions, ballQueue, container, dimensions, probe,
                 batchVars>>
  /\ ObserveDrop

\* handleReset: setStatus('idle'), then the Board Setup effect if the status
\* changed
handleReset000 ==
  /\ status' = "idle"
  /\ probe' = IF status = "idle" THEN probe
              ELSE boardSetup(probe, "idle", config, dimensions, container)
  /\ UNCHANGED <<config, ballDefinitions, ballQueue, container, dimensions, batchVars>>
  /\ ObserveDrop

\* handleCountChange of the ball pool (not while running), the queue memo,
\* the effect that syncs config.ballCount with ballQueue.length, and the
\* Board Setup effect if that made a new config
dropCountChange ==
  /\ ~disabled
  /\ \E k \in 1..Len(ballDefinitions), newCount \in 0..MaxDropCount :
       LET defs == withCount(ballDefinitions, ballDefinitions[k].color, newCount)
           queue == ballQueueOf(defs)
           cfg == [config EXCEPT !.ballCount = Len(queue)]
       IN /\ defs # ballDefinitions
          /\ ballDefinitions' = defs
          /\ ballQueue' = queue
          /\ config' = cfg
          /\ probe' = IF Len(queue) = Len(ballQueue) THEN probe
                      ELSE boardSetup(probe, status, cfg, dimensions, container)
  /\ UNCHANGED <<status, container, dimensions, batchVars>>
  /\ ObserveDrop

\* handleResize (window 'resize', registered with the engine):
\* setDimensions({clientWidth, clientHeight}), then the Board Setup effect
handleResize ==
  /\ probe.engine
  /\ \E size \in DropContainerSizes :
       /\ size # container
       /\ container' = size
       /\ dimensions' = size
       /\ probe' = boardSetup(probe, status, config, size, size)
  /\ UNCHANGED <<status, config, ballDefinitions, ballQueue, batchVars>>
  /\ ObserveDrop

\* time passes while no loop is scheduled
framesPass ==
  /\ status # "running"
  /\ \E dt \in FrameSteps :
       /\ probe.now + dt <= MaxDropTime
       /\ probe' = [probe EXCEPT !.now = @ + dt]
  /\ UNCHANGED <<status, config, ballDefinitions, ballQueue, container, dimensions,
                 batchVars>>
  /\ ObserveDrop

\* linear and angular speeds (hundredths) the solver leaves a ball with,
\* sampled around the thresholds 0.15 and 0.1
DropSpeeds == {10, 20}
DropAngularSpeeds == {5, 20}
\* heights the solver moves a ball to, sampled: among the pegs (below
\* y = 150) and in the bins
DropYs(binStartY) == {R(200), RAdd(binStartY, R(50))}

\* the physics engine (Matter.Runner runs from mount on, whatever the
\* status): a ball moves and changes speed
physicsDrop ==
  /\ probe.engine
  /\ \E i \in 1..Len(probe.balls), speed \in DropSpeeds,
        angularSpeed \in DropAngularSpeeds, y \in DropYs(probe.binStartY) :
       /\ RLe(probe.balls[i].y, y)
       /\ probe' = [probe EXCEPT !.balls[i] = [@ EXCEPT !.speed = speed,
                                                        !.angularSpeed = angularSpeed,
                                                        !.y = y]]
       /\ probe' # probe
  /\ UNCHANGED <<status, config, ballDefinitions, ballQueue, container, dimensions,
                 batchVars>>
  /\ ObserveDrop

\* the completion test of the loop, made once the queue is exhausted
dropCompletes(p) ==
  /\ p.engine
  /\ IF Len(p.balls) > 0
     THEN \A i \in 1..Len(p.balls) : isSettled(p.balls[i])
     ELSE p.ballsDropped > 0

\* loop(timestamp) of the Simulation Loop effect, with handleComplete
\* (if (status === 'running') setStatus('paused')) as onComplete
loop ==
  /\ status = "running"
  /\ \E dt \in FrameSteps :
       LET timestamp == probe.now + dt
           p == [probe EXCEPT !.now = timestamp]
       IN /\ timestamp <= MaxDropTime
          /\ IF p.ballsDropped < Len(ballQueue)
             THEN /\ probe' = IF dropDue(timestamp, p.lastDropTime, config.dropSpeedMs)
                              THEN [spawnBall(p, ballQueue)
                                    EXCEPT !.lastDropTime = timestamp,
                                           !.ballsDropped = @ + 1]
                              ELSE p
                  /\ status' = status
                  /\ fireCount' = 0
             ELSE /\ probe' = p
                  /\ status' = IF dropCompletes(p) THEN "paused" ELSE status
                  /\ fireCount' = IF dropCompletes(p) THEN 1 ELSE 0
  /\ lastOp' = "tick"
  /\ UNCHANGED <<config, ballDefinitions, ballQueue, container, dimensions, batchVars>>

InitDrop == \E defs \in DropPools, size \in DropContainerSizes : MountedDrop(defs, size)

NextDrop ==
  \/ handleStart
  \/ handlePause
  \/ handleReset000
  \/ dropCountChange
  \/ handleResize
  \/ framesPass
  \/ physicsDrop
  \/ loop

SpecDrop == InitDrop /\ [][NextDrop]_vars

\* ------------------------------------------------------------------------
\* SpecPlay: the timed-drop App with Reset-and-Play (Space key).  Each
\* pending 50 ms timeout is kept in probe.restarts, oldest first, as the
\* ballQueue.length its callback closed over.
\* ------------------------------------------------------------------------
MaxRestarts == 2

\* handleResetAndPlay of the render in which Space was pressed:
\* setStatus('idle'), with the Board Setup effect if the status changed, and
\* setTimeout(() => { if (ballQueue.length > 0) setStatus('running') }, 50)
handleResetAndPlay ==
  /\ Len(probe.restarts) < MaxRestarts
  /\ status' = "idle"
  /\ probe' = [(IF status = "idle" THEN probe
                ELSE boardSetup(probe, "idle", config, dimensions, container))
               EXCEPT !.restarts = Append(@, Len(ballQueue))]
  /\ UNCHANGED <<config, ballDefinitions, ballQueue, container, dimensions, batchVars>>
  /\ ObserveDrop

\* the oldest timeout fires: its callback tests the queue length of the
\* render that created it
restartTimeout ==
  /\ probe.restarts # <<>>
  /\ status' = IF Head(probe.restarts) > 0 THEN "running" ELSE status
  /\ probe' = [probe EXCEPT !.restarts = Tail(@)]
  /\ UNCHANGED <<config, ballDefinitions, ballQueue, container, dimensions, batchVars>>
  /\ ObserveDrop

NextPlay ==
  \/ handleStart
  \/ handlePause
  \/ handleReset000
  \/ dropCountChange
  \/ handleResetAndPlay
  \/ restartTimeout
  \/ loop

SpecPlay == InitDrop /\ [][NextPlay]_vars

\* ------------------------------------------------------------------------
\* SpecTuning: the App with the batch-fill board on a laid-out container and
\* the three Physics sliders, which stay enabled while the board is running
\* ------------------------------------------------------------------------
InitTuning ==
  /\ \E defs \in PoolDefinitions(MaxPoolCount) : Mounted(defs, LaidOut)
  /\ probe = Null

NextTuning ==
  \/ handleFill
  \/ handleRelease
  \/ handleReset
  \/ changeBallSize
  \/ changeBallRestitution
  \/ changeBallFriction
  \/ physicsSleep
  \/ tick

SpecTuning == InitTuning /\ [][NextTuning]_vars

\* ------------------------------------------------------------------------
\* SpecZones: the same board with the Bounciness and Friction sliders and a
\* physics engine that moves the balls through the zones
\* ------------------------------------------------------------------------
NextZones ==
  \/ handleFill
  \/ changeBallRestitution
  \/ changeBallFriction
  \/ physicsMove
  \/ physicsSleep
  \/ tick

SpecZones == InitTuning /\ [][NextZones]_vars

\* ------------------------------------------------------------------------
\* SpecFrames: the simulation-loop effect of the batch-fill board and the
\* animation frames it requests.  probe holds the frames the browser has
\* pending (each with the status, config and dimensions its loop closure
\* captured), animationFrameRef, the dependencies the effect last ran with,
\* whether that run returned a cleanup, and the phase of a frame callback:
\* "idle", or "body" from the start of loop until it has requested the next
\* frame, and the closure of the loop that last ran.  An App or resize action commits new state; the effect then re-runs
\* before anything else happens.
\* ------------------------------------------------------------------------
\* a cancelAnimationFrame that cancels nothing
cancelNothing(pending, id) == pending

\* cancelAnimationFrame(id): the request with this id, if still pending, is
\* dropped
cancelAnimationFrame(pending, id) == {f \in pending : f.id # id}

\* if (animationFrameRef.current) cancelAnimationFrame(animationFrameRef.current)
cancelCurrent(pending, ref) == IF ref # 0 THEN cancelAnimationFrame(pending, ref) ELSE pending

\* the id requestAnimationFrame returns: one no pending request has and the
\* ref does not hold
freshFrame(pending, ref) ==
  CHOOSE n \in 1..(Cardinality(pending) + 2) :
    /\ n # ref
    /\ \A f \in pending : f.id # n
    /\ \A m \in 1..(n - 1) : m = ref \/ \E f \in pending : f.id = m

\* the dependency array [status, dimensions, config]
loopDeps == [status |-> status, dimensions |-> dimensions, config |-> config]

\* a requestAnimationFrame whose id is not stored in animationFrameRef
requestFrameKeepingRef(p, deps) ==
  [p EXCEPT !.pending = @ \cup {[id |-> freshFrame(p.pending, p.animationFrameRef),
                                 closure |-> deps]}]

\* requestAnimationFrame(loop) for the loop of a render with the given
\* status, dimensions and config
requestFrame(p, deps) ==
  [p EXCEPT !.pending = @ \cup {[id |-> freshFrame(p.pending, p.animationFrameRef),
                                 closure |-> deps]},
            !.animationFrameRef = freshFrame(p.pending, p.animationFrameRef)]

effectPending == probe.deps # loopDeps

\* the simulation-loop effect re-runs: the cleanup of the previous run, then
\* the body (cancel and return unless running, else request the first frame)
loopEffect ==
  /\ effectPending
  /\ LET cleaned == IF probe.hasCleanup
                    THEN [probe EXCEPT !.pending = cancelCurrent(@, probe.animationFrameRef)]
                    ELSE probe
         ran == IF status # "running"
                THEN [cleaned EXCEPT !.pending = cancelCurrent(@, cleaned.animationFrameRef),
                                     !.hasCleanup = FALSE]
                ELSE [requestFrame(cleaned, loopDeps) EXCEPT !.hasCleanup = TRUE]
     IN  probe' = [ran EXCEPT !.deps = loopDeps]
  /\ UNCHANGED <<appVars, boardVars, obsVars>>

\* the browser runs the callback of a pending frame: loop starts, and
\* returns at once if its status is not 'running'
frameFires ==
  /\ ~effectPending
  /\ probe.phase = "idle"
  /\ \E f \in probe.pending :
       probe' = [probe EXCEPT !.pending = @ \ {f},
                              !.phase = IF f.closure.status # "running" THEN "idle" ELSE "body",
                              !.loop = f.closure]
  /\ lastOp' = "frame"
  /\ UNCHANGED <<appVars, boardVars, fireCount>>

\* the body of loop, for a closure whose status is 'running'
frameTick ==
  /\ probe.phase = "body"
  /\ lastOp = "frame"
  /\ tick

\* animationFrameRef.current = requestAnimationFrame(loop), the last line of
\* loop
frameReschedules ==
  /\ probe.phase = "body"
  /\ lastOp = "tick"
  /\ probe' = [requestFrame(probe, probe.loop) EXCEPT !.phase = "idle"]
  /\ UNCHANGED <<appVars, boardVars, obsVars>>

\* between two frame callbacks, with every effect run
settled == probe.phase = "idle" /\ ~effectPending

InitFrames ==
  /\ \E defs \in PoolDefinitions(MaxPoolCount), size \in ContainerSizes : Mounted(defs, size)
  /\ probe = [kind |-> "frames", pending |-> {}, animationFrameRef |-> 0,
              hasCleanup |-> FALSE, phase |-> "idle",
              deps |-> [status |-> "empty", dimensions |-> dimensions, config |-> config],
              loop |-> Null]

NextFrames ==
  \/ loopEffect
  \/ frameFires
  \/ frameTick
  \/ frameReschedules
  \/ settled /\ handleFill
  \/ settled /\ handleRelease
  \/ settled /\ handleReset
  \/ settled /\ changeBallSize
  \/ settled /\ resizeObserved
  \/ settled /\ resizeTimeout

SpecFrames == InitFrames /\ [][NextFrames]_vars

\* ------------------------------------------------------------------------
\* SpecSingle: the App (types.ts) with the single-gate board (part_001).
\* The board's state is in probe: gateRef (0 for null, else the id of the
\* gate body), the ids of the gate bodies in the world and the number of
\* ball bodies in the world.  The batch-fill board's refs are not used.
\* ------------------------------------------------------------------------
multiGateRefs == <<layoutRef, leftGateRef, rightGateRef, ballsRef, world, gateSteps>>

\* a rebuild that adds the gate whatever the gate state
gateAddedAlways(open) == TRUE

\* if (!isGateOpen) bodiesToAdd.push(gate)
gateAdded(open) == ~open

\* the id Matter gives the new gate body: not the id of the body gateRef holds
newGateId(p) == IF p.gateRef = 1 THEN 2 ELSE 1

\* setupStaticBoard of the single-gate board, run by useEffect
\* [resetTrigger, config, dimensions] unless dimensions.width is 0:
\* World.clear, a new gate body in gateRef, added only if the gate is closed
setupSingleGateBoard(p, dim, open) ==
  IF dim.width = R(0) THEN p
  ELSE [p EXCEPT !.gateRef = newGateId(p),
                 !.gates = IF gateAdded(open) THEN {newGateId(p)} ELSE {},
                 !.balls = 0]

\* useEffect [isGateOpen]: remove the gate body when open, add it back if
\* missing when closed; nothing without a gate
gateTrigger(p, open) ==
  IF p.gateRef = 0 THEN p
  ELSE IF open THEN [p EXCEPT !.gates = @ \ {p.gateRef}]
       ELSE [p EXCEPT !.gates = @ \cup {p.gateRef}]

\* handleFill, then useEffect [fillTrigger]: spawnBalls adds one ball body
\* per queue entry
singleFill ==
  /\ fillTrigger < MaxFills
  /\ RLt(R(0), dimensions.width) => probe.balls + Len(ballQueue) <= MaxBalls
  /\ status' = "running"
  /\ fillTrigger' = fillTrigger + 1
  /\ probe' = IF fillTrigger + 1 > 0 /\ RLt(R(0), dimensions.width)
              THEN [probe EXCEPT !.balls = @ + Len(ballQueue)]
              ELSE probe
  /\ UNCHANGED <<config, ballDefinitions, ballQueue, isGateOpen, container,
                 resizeTimeoutRef, dimensions, multiGateRefs, obsVars>>

\* handleRelease, then the gate trigger effect
singleRelease ==
  /\ isGateOpen' = ~isGateOpen
  /\ probe' = gateTrigger(probe, ~isGateOpen)
  /\ UNCHANGED <<status, config, ballDefinitions, ballQueue, fillTrigger, container,
                 resizeTimeoutRef, dimensions, multiGateRefs, obsVars>>

\* handleReset, then the rebuild effect and, if the gate was open, the gate
\* trigger effect, in the order the effects are declared
singleReset ==
  /\ isGateOpen' = FALSE
  /\ status' = "empty"
  /\ probe' = IF isGateOpen
              THEN gateTrigger(setupSingleGateBoard(probe, dimensions, FALSE), FALSE)
              ELSE setupSingleGateBoard(probe, dimensions, FALSE)
  /\ UNCHANGED <<config, ballDefinitions, ballQueue, fillTrigger, container,
                 resizeTimeoutRef, dimensions, multiGateRefs, obsVars>>

\* a Controls slider stores a new config: the rebuild effect runs
singleConfigChange ==
  /\ \E value \in BallSizeChoices :
       /\ value # config.ballSize
       /\ config' = [config EXCEPT !.ballSize = value]
  /\ probe' = setupSingleGateBoard(probe, dimensions, isGateOpen)
  /\ UNCHANGED <<status, ballDefinitions, ballQueue, fillTrigger, isGateOpen,
                 container, resizeTimeoutRef, dimensions, multiGateRefs, obsVars>>

\* the ResizeObserver callback: (re)start the 100 ms timeout
singleResizeObserved ==
  /\ \E size \in ContainerSizes : size # container /\ container' = size
  /\ resizeTimeoutRef' = TRUE
  /\ UNCHANGED <<appVars, dimensions, multiGateRefs, obsVars, probe>>

\* the timeout: a zero size is ignored, else setDimensions and the rebuild
singleResizeTimeout ==
  /\ resizeTimeoutRef
  /\ resizeTimeoutRef' = FALSE
  /\ IF container.width = R(0) \/ container.height = R(0)
     THEN UNCHANGED <<dimensions, probe>>
     ELSE /\ dimensions' = container
          /\ probe' = setupSingleGateBoard(probe, container, isGateOpen)
  /\ UNCHANGED <<appVars, container, multiGateRefs, obsVars>>

\* the App mounted with the single-gate board in a container of the given
\* size: setDimensions, then the rebuild effect (skipped at width 0)
InitSingle ==
  \E defs \in PoolDefinitions(MaxPoolCount), size \in ContainerSizes :
    /\ status = "empty"
    /\ ballDefinitions = defs
    /\ ballQueue = ballQueueOf(defs)
    /\ config = initialConfig(Len(ballQueueOf(defs)))
    /\ fillTrigger = 0
    /\ isGateOpen = FALSE
    /\ container = size
    /\ resizeTimeoutRef = FALSE
    /\ dimensions = size
    /\ probe = setupSingleGateBoard([kind |-> "single", gateRef |-> 0, gates |-> {},
                                     balls |-> 0], size, FALSE)
    /\ layoutRef = Null
    /\ leftGateRef = Null
    /\ rightGateRef = Null
    /\ ballsRef = <<>>
    /\ world = [balls |-> {}, gates |-> FALSE]
    /\ gateSteps = 0
    /\ lastOp = "other"
    /\ fireCount = 0

NextSingle ==
  \/ singleFill
  \/ singleRelease
  \/ singleReset
  \/ singleConfigChange
  \/ singleResizeObserved
  \/ singleResizeTimeout

SpecSingle == InitSingle /\ [][NextSingle]_vars

\* ------------------------------------------------------------------------
\* SpecPattern: the colour-pattern Controls (part_000) under the App of
\* App.tsx.  probe.ballPattern is the App's ballPattern state with every
\* queued update applied; probe.rendered is the ballPattern prop of the last
\* render, which the handlers of the buttons on screen closed over.
\* ------------------------------------------------------------------------
PatternColors == {DEFAULT_COLORS[1], DEFAULT_COLORS[2]}
MaxPattern == 3

\* prev.filter((_, i) => i !== index), index counted from 0
withoutIndex(prev, index) ==
  SelectSeq([i \in 1..Len(prev) |-> <<i - 1, prev[i]>>], LAMBDA e : e[1] # index)

patternOf(entries) == [i \in 1..Len(entries) |-> entries[i][2]]

patternUnchanged == UNCHANGED <<appVars, boardVars, obsVars>>

\* addBallToPattern: setBallPattern(prev => [...prev, color])
addBallToPattern ==
  /\ Len(probe.ballPattern) < MaxPattern
  /\ \E color \in PatternColors :
       probe' = [probe EXCEPT !.ballPattern = Append(@, color)]
  /\ patternUnchanged

\* removeBallFromPattern(index) of a trash button on screen:
\* if (ballPattern.length <= 1) return;
\* setBallPattern(prev => prev.filter((_, i) => i !== index))
removeBallFromPattern ==
  /\ \E index \in 0..(Len(probe.rendered) - 1) :
       /\ Len(probe.rendered) > 1
       /\ probe' = [probe EXCEPT
                      !.ballPattern = patternOf(withoutIndex(@, index))]
       /\ probe' # probe
  /\ patternUnchanged

\* clearPattern: setBallPattern([DEFAULT_COLORS[0]])
clearPattern ==
  /\ probe' = [probe EXCEPT !.ballPattern = <<DEFAULT_COLORS[1]>>]
  /\ probe' # probe
  /\ patternUnchanged

\* the queued updates are committed and Controls re-renders
patternRenders ==
  /\ probe.rendered # probe.ballPattern
  /\ probe' = [probe EXCEPT !.rendered = probe.ballPattern]
  /\ patternUnchanged

InitPattern ==
  /\ status = "idle"
  /\ config = initialConfig000(200)
  /\ ballDefinitions = <<>>
  /\ ballQueue = <<>>
  /\ fillTrigger = 0
  /\ isGateOpen = FALSE
  /\ container = Unsized
  /\ resizeTimeoutRef = FALSE
  /\ dimensions = Unsized
  /\ layoutRef = Null
  /\ leftGateRef = Null
  /\ rightGateRef = Null
  /\ ballsRef = <<>>
  /\ world = [balls |-> {}, gates |-> FALSE]
  /\ gateSteps = 0
  /\ lastOp = "other"
  /\ fireCount = 0
  /\ probe = [kind |-> "pattern", ballPattern |-> <<DEFAULT_COLORS[1]>>,
              rendered |-> <<DEFAULT_COLORS[1]>>]

NextPattern ==
  \/ addBallToPattern
  \/ removeBallFromPattern
  \/ clearPattern
  \/ patternRenders

SpecPattern == InitPattern /\ [][NextPattern]_vars

\* ------------------------------------------------------------------------
\* the delay of setTimeout(..., 100), in ms
ResizeDelay == 100

TimeStep == ResizeDelay \div 2

\* a timeout that is due at once
timeoutDueAtOnce(now) == now

\* the time the timeout set at `now` is due
timeoutDue(now) == now + ResizeDelay

InitResize ==
  /\ \E size \in ContainerSizes : Mounted(EmptyPool, size)
  /\ probe = [kind |-> "clock", now |-> 0, due |-> 0, lastNotified |-> 0 - ResizeDelay,
              burstSize |-> 0, burstUpdates |-> 0, appliedAt |-> 0]

timePasses ==
  /\ probe.now < MaxTimeSteps * TimeStep
  /\ probe' = [probe EXCEPT !.now = @ + TimeStep]
  /\ UNCHANGED <<appVars, boardVars, obsVars>>

\* the ResizeObserver callback: clearTimeout, then setTimeout(..., 100)
resizeObservedAt ==
  /\ \E size \in ContainerSizes : size # container /\ container' = size
  /\ resizeTimeoutRef' = TRUE
  /\ LET sameBurst == probe.now - probe.lastNotified < ResizeDelay
     IN  probe' = [probe EXCEPT
                     !.due = timeoutDue(probe.now),
                     !.lastNotified = probe.now,
                     !.burstSize = IF ~sameBurst THEN 1
                                   ELSE IF @ < MaxBurst THEN @ + 1 ELSE @,
                     !.burstUpdates = IF sameBurst THEN @ ELSE 0]
  /\ UNCHANGED <<appVars, dimensions, layoutRef, leftGateRef, rightGateRef,
                 ballsRef, world, gateSteps>>
  /\ Observe("other")

\* the timeout callback, run by the timer once it is due
resizeTimeoutAt ==
  /\ resizeTimeoutRef
  /\ probe.now >= probe.due
  /\ resizeTimeoutRef' = FALSE
  /\ IF container.width = R(0) \/ container.height = R(0)
     THEN UNCHANGED <<dimensions, layoutRef, leftGateRef, rightGateRef, ballsRef,
                      world, gateSteps, probe>>
     ELSE /\ dimensions' = container
          /\ layoutRef' = layoutAfter(container, config, layoutRef)
          /\ setupStaticBoard(container, config)
          /\ probe' = [probe EXCEPT !.burstUpdates = @ + 1, !.appliedAt = probe.now]
  /\ UNCHANGED <<appVars, container>>
  /\ Observe("other")

NextResize ==
  \/ timePasses
  \/ resizeObservedAt
  \/ resizeTimeoutAt

SpecResize == InitResize /\ [][NextResize]_vars

\* ========================================================================
\* Properties
\* ========================================================================
ballsAboveBins == {i \in 1..Len(ballsRef) : RLt(ballsRef[i].y, layoutRef.binStartY)}

C2_EdgeTriggered == fireCount <= 1

\* C3 (as stated): whatever fills ran since the last rebuild, the world never
\* holds more ball bodies than the queue has entries.
C3_NeverMoreThanQueue == Cardinality(world.balls) <= Len(ballQueue)

\* C3 (amended): a fill on a sized board keeps every ball that is already
\* there and adds exactly one new ball body per queue entry, so the ball
\* count grows by the queue length with each fill.
C3_FillAppendsQueue ==
  [][(fillTrigger' = fillTrigger + 1 /\ RLt(R(0), dimensions.width))
       => /\ Len(ballsRef') = Len(ballsRef) + Len(ballQueue)
          /\ SubSeq(ballsRef', 1, Len(ballsRef)) = ballsRef
          /\ world.balls \subseteq world'.balls
          /\ Cardinality(world'.balls) = Cardinality(world.balls) + Len(ballQueue)
          /\ world'.balls = {ballsRef'[i].id : i \in 1..Len(ballsRef')}]_vars

C3_TwoFillsWitness ==
  /\ Len(ballQueue) >= 1
  /\ fillTrigger = 2
  /\ Cardinality(world.balls) = 2 * Len(ballQueue)
  /\ Len(ballsRef) = 2 * Len(ballQueue)

\* C4: for rowCount >= 2, bucketCount >= 1 and positive width and height the
\* layout of the batch-fill board has binHeight >= 0 and pegStartY < binStartY.
C4_LayoutOrdered ==
  layoutDone => /\ RLe(R(0), probe.metrics.binHeight)
                /\ RLt(probe.metrics.pegStartY, probe.metrics.binStartY)

C4_FlooredWitness ==
  /\ layoutDone
  /\ squashes(probe.width, probe.height, probe.config)
  /\ probe.metrics.spacingY = R(10)
  /\ probe.metrics.binHeight = R(0)
  /\ RLt(probe.height, probe.metrics.binStartY)

\* C5 (as stated): in both layout calculators spacingX * bucketCount = width,
\* also when the vertical spacing is compressed.
C5_ColumnsFillWidth ==
  layoutDone => /\ RMul(probe.metrics.spacingX, R(probe.config.bucketCount)) = probe.width
                /\ RMul(probe.metrics001.spacingX, R(probe.config.bucketCount)) = probe.width

\* C6 (as stated): when the batch-fill layout compresses, the bin region
\* height - binStartY is at least max(150, 0.3 * height).
C6_BinsKeepMinimum ==
  (layoutDone /\ squashes(probe.width, probe.height, probe.config))
    => RLe(minViableBinHeightOf(probe.height), RSub(probe.height, probe.metrics.binStartY))

\* C7 (as stated): an awake ball at binStartY - 1 is given
\* config.ballRestitution and an awake ball at binStartY + 1 is given zero.
C7_BoundaryAtBinStart ==
  (tuneDone /\ ~probe.ball.isSleeping)
    => /\ probe.offset = -1 => probe.ball.restitution = probe.config.ballRestitution
       /\ probe.offset = 1 => probe.ball.restitution = 0

\* C7 (amended): the bin zone starts at binStartY - 10, compared strictly: a
\* ball below the funnel zone is given zero restitution when
\* y > binStartY - 10 (so at binStartY - 9, binStartY - 1 and binStartY + 1)
\* and config.ballRestitution when y <= binStartY - 10 (so at binStartY - 11
\* and at binStartY - 10 itself); the batch-fill board does so for awake balls,
\* the single-gate board for every ball.
C7_BoundaryTenAboveBins ==
  tuneDone
    => /\ (~probe.ball.isSleeping /\ ~probe.inFunnel)
            => probe.ball.restitution =
                 IF probe.offset > -10 THEN 0 ELSE probe.config.ballRestitution
       /\ ~probe.inFunnel001
            => probe.restitution001 =
                 IF probe.offset > -10 THEN 0 ELSE probe.config.ballRestitution

C7_PegZoneWitness ==
  /\ tuneDone
  /\ probe.offset = -11
  /\ ~probe.ball.isSleeping
  /\ ~probe.inFunnel
  /\ probe.ball.restitution = probe.config.ballRestitution
  /\ probe.restitution001 = probe.config.ballRestitution

\* the number of queue entries that come before definition k
RECURSIVE poolOffset(_, _)
poolOffset(defs, k) == IF k <= 1 THEN 0 ELSE poolOffset(defs, k - 1) + defs[k - 1].count

\* C8: the ball queue holds, for each definition in list order, exactly
\* `count` contiguous entries of its colour; its length is the sum of the
\* counts, and it is empty when every count is zero.
C8_QueueIsPoolInOrder ==
  /\ Len(ballQueue) = poolOffset(ballDefinitions, Len(ballDefinitions) + 1)
  /\ \A k \in 1..Len(ballDefinitions) :
       \A j \in 1..ballDefinitions[k].count :
         ballQueue[poolOffset(ballDefinitions, k) + j] = ballDefinitions[k].color
  /\ (\A k \in 1..Len(ballDefinitions) : ballDefinitions[k].count = 0) => ballQueue = <<>>

C8_MixedPoolWitness ==
  /\ ballDefinitions[1].count = 2
  /\ ballDefinitions[2].count = 0
  /\ ballDefinitions[3].count = 1
  /\ ballQueue = <<DEFAULT_COLORS[1], DEFAULT_COLORS[1], DEFAULT_COLORS[3]>>

\* the gate bodies' distance to the closed target and the side they are on
leftGap(gate) == RSub(gate.x, closedLeftX(dimensions.width, config.ballSize))
rightGap(gate) == RSub(gate.x, closedRightX(dimensions.width, config.ballSize))

\* C9: while the gate is closed (after it was opened and closed again), each
\* tick leaves each gate body no farther from its closed target than it was
\* and never carries it past the target.
C9_GateClosesMonotonically ==
  [][(lastOp' = "tick" /\ ~isGateOpen /\ leftGateRef # Null /\ rightGateRef # Null)
       => /\ RLe(RAbs(leftGap(leftGateRef')), RAbs(leftGap(leftGateRef)))
          /\ RLe(RAbs(rightGap(rightGateRef')), RAbs(rightGap(rightGateRef)))
          /\ RLe(R(0), RMul(leftGap(leftGateRef'), leftGap(leftGateRef)))
          /\ RLe(R(0), RMul(rightGap(rightGateRef'), rightGap(rightGateRef)))]_vars

C9_ClosingWitness ==
  /\ lastOp = "tick"
  /\ ~isGateOpen
  /\ leftGateRef # Null
  /\ gateSteps >= 3
  /\ RLt(leftGap(leftGateRef), R(0))
  /\ RLt(R(0), rightGap(rightGateRef))

\* C10: right after the gate is toggled open no ball above the bin region is
\* asleep, and while the gate is open no ball with y < binStartY is asleep
\* right after a tick.
C10_OpenGateWakes ==
  ((lastOp = "handleRelease" \/ lastOp = "tick") /\ isGateOpen /\ layoutRef # Null)
    => \A i \in ballsAboveBins : ~ballsRef[i].isSleeping

C10_AwakeAboveAsleepBelowWitness ==
  /\ lastOp = "tick"
  /\ isGateOpen
  /\ layoutRef # Null
  /\ \E i \in ballsAboveBins : ~ballsRef[i].isSleeping
  /\ \E i \in 1..Len(ballsRef) : i \notin ballsAboveBins /\ ballsRef[i].isSleeping

\* the ball bodies of a list, by identity
bodiesOf(balls) == [i \in 1..Len(balls) |-> [id |-> balls[i].id, color |-> balls[i].color]]

\* C11: a gate toggle and a tick never add or remove ball entities: the ball
\* list holds the same bodies in the same order and the world holds the same
\* ball bodies after the step as before it.
C11_ToggleAndTickKeepBalls ==
  [][(lastOp' = "tick" \/ lastOp' = "handleRelease")
       => /\ bodiesOf(ballsRef') = bodiesOf(ballsRef)
          /\ world' = world]_vars

C11_TickWithOpenGateWitness ==
  /\ lastOp = "tick"
  /\ isGateOpen
  /\ gateSteps >= 1
  /\ Len(ballsRef) = 2
  /\ world.balls = {ballsRef[1].id, ballsRef[2].id}

\* a step that fires the rebuild effect: a reset trigger, a new config
\* object, or a debounced resize that applies a non-zero size
rebuildTriggered ==
  \/ handleReset
  \/ config' # config
  \/ resizeTimeoutRef /\ ~resizeTimeoutRef'
       /\ container.width # R(0) /\ container.height # R(0)

\* C12: every reset trigger, config change or applied dimension change on a
\* board of non-zero width clears the world and re-creates both gate bodies
\* from the current layout: afterwards no ball body from before is left in
\* the world or in ballsRef, and leftGateRef and rightGateRef are fresh
\* closed gate bodies that are in the world.
C12_RebuildClearsThenAdds ==
  [][(rebuildTriggered /\ dimensions'.width # R(0))
       => /\ world' = [balls |-> {}, gates |-> TRUE]
          /\ ballsRef' = <<>>
          /\ leftGateRef' = newLeftGate(dimensions', config')
          /\ rightGateRef' = newRightGate(dimensions', config')
          /\ leftGateRef'.y = layoutRef'.funnelExitY
          /\ gateSteps' = 0]_vars

C12_RebuiltWhileRunningWitness ==
  /\ status = "running"
  /\ fillTrigger = MaxFills
  /\ Len(ballQueue) >= 1
  /\ isGateOpen
  /\ dimensions.width # R(0)
  /\ ballsRef = <<>>
  /\ world = [balls |-> {}, gates |-> TRUE]
  /\ leftGateRef = newLeftGate(dimensions, config)

\* the board of the end-to-end example: 900 x 600, 8 rows, 9 buckets
exampleBoard ==
  /\ pegsDone
  /\ probe.dim = [width |-> R(900), height |-> R(600)]
  /\ probe.config.rowCount = 8
  /\ probe.config.bucketCount = 9

pegRowYs == {p.y : p \in probe.pegs}
pegsOnRow(row) == {p \in probe.pegs : p.row = row}

\* C13 (as stated): on the 900 x 600 board with 8 rows and 9 buckets the pegs
\* lie on exactly rowCount distinct rows and row 0 holds exactly 1 or 2 pegs.
C13_RowZeroOneOrTwoPegs ==
  exampleBoard => /\ Cardinality(pegRowYs) = probe.config.rowCount
                  /\ Cardinality(pegsOnRow(0)) \in {1, 2}

\* C13 (amended): on every board the pegs lie on exactly rowCount distinct
\* rows; on the 900 x 600 board with 8 rows and 9 buckets each even row, row 0
\* included, holds exactly bucketCount = 9 pegs and each odd row holds
\* bucketCount + 1 = 10 pegs: the lattice is a full-width zig-zag grid.
C13_FullWidthPegRows ==
  /\ pegsDone => Cardinality(pegRowYs) = probe.config.rowCount
  /\ exampleBoard
       => \A row \in 0..(probe.config.rowCount - 1) :
            Cardinality(pegsOnRow(row)) =
              IF row % 2 = 0 THEN probe.config.bucketCount
              ELSE probe.config.bucketCount + 1

C13_ExampleBoardWitness ==
  /\ exampleBoard
  /\ Cardinality(pegsOnRow(0)) = 9
  /\ Cardinality(probe.pegs) = 76

\* C14 (as stated): for every ball size 1..10 the opening between the funnel
\* tips is strictly wider than one ball diameter (2 * ballSize) and strictly
\* narrower than two ball diameters.
C14_NeckIsSingleFile ==
  funnelDone
    => LET opening == RSub(probe.neck.tipXRight, probe.neck.tipXLeft)
       IN  /\ RLt(R(2 * probe.ballSize), opening)
           /\ RLt(opening, R(4 * probe.ballSize))

\* the derived spans of a layout: spacingX, spacingY, the peg-field height
\* and binHeight
spansOf(metrics, rowCount) ==
  {metrics.spacingX, metrics.spacingY, RMul(R(rowCount - 1), metrics.spacingY),
   metrics.binHeight}

\* C15 (as stated): for a zero or negative canvas width or height (rowCount
\* >= 2, bucketCount >= 1) neither layout calculator returns a negative span:
\* spacingX, spacingY, the peg-field height and binHeight are all >= 0.
C15_DegenerateSpansClamped ==
  (layoutDone /\ (RLe(probe.width, R(0)) \/ RLe(probe.height, R(0))))
    => /\ \A span \in spansOf(probe.metrics, probe.config.rowCount) : RLe(R(0), span)
       /\ \A span \in spansOf(probe.metrics001, probe.config.rowCount) : RLe(R(0), span)

\* C16: resize notifications are coalesced: a burst of notifications, each
\* less than 100 ms after the previous one, leads to at most one dimensions
\* update; the update is applied by the timeout no sooner than 100 ms after
\* the last notification, with no timeout left pending, and never applies a
\* zero width or height.
C16_ResizeIsDebounced ==
  /\ probe.burstUpdates <= 1
  /\ probe.burstUpdates = 1
       => /\ probe.appliedAt - probe.lastNotified >= ResizeDelay
          /\ ~resizeTimeoutRef
          /\ dimensions.width # R(0)
          /\ dimensions.height # R(0)

C16_BurstThenUpdateWitness ==
  /\ probe.burstSize >= 2
  /\ probe.burstUpdates = 1
  /\ probe.appliedAt = probe.lastNotified + ResizeDelay
  /\ dimensions = container

\* C17: after any sequence of Controls changes the layout is never computed
\* with bucketCount < 1: the config of every reachable state has
\* bucketCount >= 1, and the cached layout is the one computed from that
\* config (its spacingX times bucketCount is the board width).
C17_LayoutNeverBelowOneBucket ==
  /\ config.bucketCount >= 1
  /\ layoutRef = getLayoutMetrics(dimensions.width, dimensions.height, config)
  /\ RMul(layoutRef.spacingX, R(config.bucketCount)) = dimensions.width

\* the Bucket Columns slider at its minimum after the Rows slider was moved
C17_SlidersAtMinimumWitness ==
  /\ config.rowCount = 24
  /\ config.bucketCount = 4
  /\ layoutRef.spacingX = R(240)

\* the loop step that just ran spawned a ball
spawnedInLoop == lastOp' = "tick" /\ Len(probe'.balls) > Len(probe.balls)

\* C18: a tick of the timed-drop board spawns at most one ball, and only when
\* more than dropSpeedMs has elapsed since the previous drop and ballsDropped
\* has not reached ballQueue.length; the k-th ball spawned since the board
\* was last reset (k counted from 0) has colour ballQueue[k], and k is the
\* drop index.
C18_TimedDropInQueueOrder ==
  [][/\ lastOp' = "tick" => Len(probe'.balls) - Len(probe.balls) \in {0, 1}
     /\ spawnedInLoop
          => /\ probe'.now - probe.lastDropTime > config.dropSpeedMs
             /\ probe.ballsDropped < Len(ballQueue)
             /\ probe.sinceReset = probe.ballsDropped
             /\ probe'.balls[Len(probe'.balls)].color = ballQueue[probe.sinceReset + 1]]_vars

\* the second ball of a two-colour queue was just dropped
C18_SecondBallDroppedWitness ==
  /\ lastOp = "tick"
  /\ ballQueue = <<"Blue", "Red">>
  /\ Len(probe.balls) = 2
  /\ probe.balls[2].color = "Red"
  /\ probe.ballsDropped = 2
  /\ probe.lastDropTime = probe.now

\* C19 (as stated): in the timed-drop board onComplete is invoked only when
\* the queue is exhausted (ballsDropped >= ballQueue.length) and every live
\* ball has linear speed below 0.15, angular speed below 0.1 and a vertical
\* position inside the bin band (y greater than binStartY).
C19_CompletesOnlyWhenSettledInBins ==
  fired
    => /\ probe.ballsDropped >= Len(ballQueue)
       /\ \A i \in 1..Len(probe.balls) :
            /\ probe.balls[i].speed < 15
            /\ probe.balls[i].angularSpeed < 10
            /\ RLt(probe.binStartY, probe.balls[i].y)

\* C20 (as stated): in the batch-fill board completion fires only when every
\* live ball has passed binStartY; a ball resting or asleep in the funnel
\* behind a closed gate never causes completion.
C20_CompletesOnlyPastBinStart ==
  fired => \A i \in 1..Len(ballsRef) : RLt(layoutRef.binStartY, ballsRef[i].y)

\* a step of one of the Physics sliders (Ball Size, Bounciness, Friction)
physicsSliderMoved ==
  /\ config' # config
  /\ config'.rowCount = config.rowCount
  /\ config'.bucketCount = config.bucketCount
  /\ config'.ballCount = config.ballCount
  /\ config'.pegSize = config.pegSize

\* C21 (as stated): moving the Ball Size, Bounciness or Friction slider, which
\* stay enabled while the simulation is running, leaves the live-ball list and
\* the world's ball bodies unchanged: only a reset removes live balls.
C21_SlidersKeepLiveBalls ==
  [][physicsSliderMoved => (ballsRef' = ballsRef /\ world'.balls = world.balls)]_vars

\* C22: after every tick each awake live ball has the restitution of its
\* zone: damped (0 or 0.1) above funnelExitY + 10, 0 below binStartY - 10,
\* config.ballRestitution in between; and every live ball, asleep or awake,
\* has friction config.ballFriction.
C22_TickTunesEveryBall ==
  lastOp = "tick"
    => \A i \in 1..Len(ballsRef) :
         /\ ballsRef[i].friction = config.ballFriction
         /\ ~ballsRef[i].isSleeping
              => IF RLt(ballsRef[i].y, RAdd(layoutRef.funnelExitY, R(10)))
                 THEN ballsRef[i].restitution \in {0, 1}
                 ELSE IF RLt(RSub(layoutRef.binStartY, R(10)), ballsRef[i].y)
                      THEN ballsRef[i].restitution = 0
                      ELSE ballsRef[i].restitution = config.ballRestitution

\* after a tick, with the Bounciness and Friction sliders moved: an awake ball
\* in the peg field, and an awake ball in the bins
C22_PegFieldAndBinsWitness ==
  /\ lastOp = "tick"
  /\ config.ballRestitution = 9
  /\ config.ballFriction = 50
  /\ \E i \in 1..Len(ballsRef) :
       /\ ~ballsRef[i].isSleeping
       /\ ballsRef[i].y = layoutRef.pegStartY
       /\ ballsRef[i].restitution = 9
  /\ \E i \in 1..Len(ballsRef) :
       /\ ~ballsRef[i].isSleeping
       /\ RLt(layoutRef.binStartY, ballsRef[i].y)
       /\ ballsRef[i].restitution = 0
       /\ ballsRef[i].friction = 50

\* the left and right edge of a gate rectangle centred at x
gateLeftEdge(x, w) == RSub(x, RDiv(w, R(2)))
gateRightEdge(x, w) == RAdd(x, RDiv(w, R(2)))

\* C23: for every ball size and canvas width, at the closed targets the two
\* gate bodies overlap each other across the neck centre and together cover
\* the whole neck gap; at the open targets each gate has moved outward by at
\* least one gate width and neither gate intersects the neck interval
\* [center - gap / 2, center + gap / 2].
C23_GatesSealAndClear ==
  funnelDone
    => LET g == probe.gates
           w == g.gateWidth
           center == RDiv(probe.width, R(2))
       IN  /\ RLt(gateLeftEdge(g.closedRightX, w), center)
           /\ RLt(center, gateRightEdge(g.closedLeftX, w))
           /\ RLe(gateLeftEdge(g.closedLeftX, w), probe.neck.tipXLeft)
           /\ RLe(probe.neck.tipXRight, gateRightEdge(g.closedRightX, w))
           /\ RLe(w, RSub(g.closedLeftX, g.openLeftX))
           /\ RLe(w, RSub(g.openRightX, g.closedRightX))
           /\ RLt(gateRightEdge(g.openLeftX, w), probe.neck.tipXLeft)
           /\ RLt(probe.neck.tipXRight, gateLeftEdge(g.openRightX, w))

\* the gates of the largest ball on a 900 wide canvas: gap 22, gate width 41,
\* closed at 434.5 and 465.5, open at 388.5 and 511.5
C23_LargestBallGatesWitness ==
  /\ funnelDone
  /\ probe.ballSize = 10
  /\ probe.width = R(900)
  /\ probe.gates.gateWidth = R(41)
  /\ probe.gates.closedLeftX = Frac(869, 2)
  /\ probe.gates.openLeftX = Frac(777, 2)
  /\ probe.gates.openRightX = Frac(1023, 2)

\* C24: while status is not 'running' no tick body executes: once the loop
\* effect has run for a status other than 'running' no animation frame is
\* pending (leaving 'running' cancels it), and whenever a loop body is
\* executing the status is 'running', so gate positions, ball restitution and
\* friction and the completion callback are left alone until then.
C24_NoTickUnlessRunning ==
  /\ (status # "running" /\ ~effectPending) => (probe.pending = {} /\ probe.phase = "idle")
  /\ probe.phase = "body" => (status = "running" /\ probe.loop.status = "running")
  /\ (lastOp = "tick" /\ probe.phase = "body") => status = "running"

\* the board was running with a frame requested, then reset: the frame is
\* cancelled
C24_ResetCancelsFrameWitness ==
  /\ status = "empty"
  /\ fillTrigger >= 1
  /\ ~effectPending
  /\ probe.animationFrameRef # 0
  /\ probe.pending = {}
  /\ ~probe.hasCleanup

\* C28: at most one animation-frame loop is scheduled at any time: when the
\* loop effect re-runs, the frame of the previous loop is cancelled before
\* the new loop starts, so no frame is pending while a loop body runs (a tick
\* never runs twice in one frame) and every pending or running loop has the
\* current status, dimensions and config (a tick never runs with a stale
\* config).
C28_OneLoopWithCurrentConfig ==
  /\ Cardinality(probe.pending) <= 1
  /\ probe.phase = "body" => (probe.pending = {} /\ probe.loop = loopDeps)
  /\ ~effectPending => \A f \in probe.pending :
                         f.closure = loopDeps /\ f.id = probe.animationFrameRef

\* a tick has run and rescheduled itself after the Ball Size slider was moved
\* while running
C28_TickAfterSliderWitness ==
  /\ status = "running"
  /\ config.ballSize = 5
  /\ lastOp = "tick"
  /\ probe.phase = "idle"
  /\ Cardinality(probe.pending) = 1
  /\ \A f \in probe.pending : f.closure.config.ballSize = 5

\* C25: after any sequence of reset, fill, gate toggle, config change, resize
\* and tick, ballsRef.current holds exactly the ball bodies that are in the
\* physics world, each once: no handle to a ball a rebuild removed survives,
\* and no ball of the world is missing from the list.
C25_BallsRefIsWorldBalls ==
  /\ {ballsRef[i].id : i \in 1..Len(ballsRef)} = world.balls
  /\ \A i, j \in 1..Len(ballsRef) : ballsRef[i].id = ballsRef[j].id => i = j

\* a second fill after a rebuild removed the balls of the first, then a tick
C25_RefilledAfterRebuildWitness ==
  /\ fillTrigger = 2
  /\ Len(ballsRef) = Len(ballQueue)
  /\ Len(ballsRef) > 0
  /\ lastOp = "tick"

\* C27: after handleReset and the effects it triggers, on a board of
\* non-zero width, the logical gate state is closed, status is 'empty', the
\* live-ball list is empty and both gate bodies are at their closed positions.
C27_ResetClosesAndEmpties ==
  [][(handleReset /\ RLt(R(0), dimensions.width))
       => /\ ~isGateOpen'
          /\ status' = "empty"
          /\ ballsRef' = <<>>
          /\ world'.balls = {}
          /\ world'.gates
          /\ leftGateRef'.x = closedLeftX(dimensions'.width, config'.ballSize)
          /\ rightGateRef'.x = closedRightX(dimensions'.width, config'.ballSize)]_vars

\* a board that was filled and then reset: the only way back to 'empty'
C27_ResetAfterReleaseWitness ==
  /\ status = "empty"
  /\ fillTrigger >= 1
  /\ ~isGateOpen
  /\ ballsRef = <<>>
  /\ gateSteps = 0
  /\ leftGateRef # Null
  /\ leftGateRef.x = closedLeftX(dimensions.width, config.ballSize)
  /\ lastOp = "other"

\* C26: in the single-gate board, after any sequence of reset, config
\* change, resize, fill and gate toggles, once the triggered effects have
\* run, the gate body gateRef refers to is in the world exactly when the
\* logical gate state is closed, and no other gate body is in the world.
C26_GateInWorldIffClosed ==
  probe.gateRef # 0
    => /\ (probe.gateRef \in probe.gates) <=> ~isGateOpen
       /\ probe.gates \subseteq {probe.gateRef}

\* the gate is open on a board rebuilt after a fill: gateRef holds the new
\* gate body, which is not in the world
C26_OpenOnRebuiltBoardWitness ==
  /\ isGateOpen
  /\ status = "running"
  /\ config.ballSize = 5
  /\ probe.gateRef = 2
  /\ probe.gates = {}

\* C29 (as stated): in the timed-drop App status never becomes 'running'
\* while the ball queue is empty: Start, Resume and Reset-and-Play, with its
\* delayed restart interleaved with ball-pool edits, only enter 'running'
\* when the current queue has at least one ball.
C29_RunningOnlyWithBalls ==
  status = "running" => Len(ballQueue) > 0

====
